---- MODULE Spec2Model ----
(***************************************************************************)
(* A model of the read-only container readers of monokakido-python:        *)
(*   rsc.py        Rsc / RscIndex   (per-block compression, one-slot cache) *)
(*   nrsc.py       Nrsc / NrscData  (per-record compression)                *)
(*   keys.py       Keys             (prefix index, page-lists, headers)     *)
(*   headlines.py  Headlines        (fixed-record index, binary search)     *)
(*                                                                         *)
(* Conventions.  A Python value that may be None is a sequence of length   *)
(* at most one: None is <<>> and a value v is <<v>>.  A call's outcome is  *)
(* a record [exc, val]: exc = "none" and val the returned value, or exc    *)
(* the name of the exception raised.  Bytes are the integers 0..255 and a  *)
(* bytes object or a file's content is a sequence of them; Python's index  *)
(* i is position i + 1 of the sequence.                                    *)
(***************************************************************************)
EXTENDS Integers, Sequences, FiniteSets, TLC

VARIABLES
    store,            \* which container the program has opened
    dir,              \* the directory listing given to Rsc.files / Nrsc.files
    files,            \* Rsc.files / NrscData.files: None until enumerated
    index,            \* Rsc.index, an RscIndex [idx, map]
    current_offset,   \* Rsc.current_offset
    current_len,      \* Rsc.current_len
    contents_buf,     \* Rsc.contents_buf
    zlib_buf,         \* Rsc.zlib_buf
    read_buf,         \* NrscData.read_buf
    keys,             \* the Keys object: offset_delta, word_index, word_data, index_prefix
    recs,             \* Headlines.recs
    words,            \* Headlines.words
    image,            \* the bytes of the key or headline file being opened
    call              \* the last operation run and its outcome

vars == <<store, dir, files, index, current_offset, current_len, contents_buf,
          zlib_buf, read_buf, keys, recs, words, image, call>>

(***************************************************************************)
(* Python primitives                                                       *)
(***************************************************************************)
None == <<>>

Some(v) == <<v>>

Ok(v) == [exc |-> "none", val |-> v]

Raise(e) == [exc |-> e, val |-> <<>>]

Min(a, b) == IF a < b THEN a ELSE b

Max(a, b) == IF a > b THEN a ELSE b

\* s[a:b] for 0 <= a, 0 <= b: a slice never fails, it is cut at the end of s.
Slice(s, a, b) ==
    LET hi == Min(b, Len(s))
    IN  IF a >= hi THEN <<>> ELSE SubSeq(s, a + 1, hi)

\* f.seek(pos); f.read(n) on a file whose content is s: short at end of file.
FileRead(s, pos, n) == Slice(s, pos, pos + n)

\* struct.unpack('<I', raw)[0]: raw must be exactly four bytes.
UnpackU32(raw) ==
    IF Len(raw) # 4 THEN Raise("struct.error")
    ELSE Ok(raw[1] + 256 * raw[2] + 65536 * raw[3] + 16777216 * raw[4])

(***************************************************************************)
(* zlib.decompress is library code.  It is modelled by a run-length codec  *)
(* with the same interface properties: the stream is self-terminating      *)
(* (pairs <<count, byte>> then a 0), bytes after the terminator are        *)
(* ignored, a stream that ends before its terminator is an error, and the  *)
(* output length differs from the input length.                            *)
(***************************************************************************)
RECURSIVE Inflate(_, _, _)
Inflate(s, i, out) ==
    IF i > Len(s) THEN Raise("zlib.error")
    ELSE IF s[i] = 0 THEN Ok(out)
    ELSE IF i + 1 > Len(s) THEN Raise("zlib.error")
    ELSE Inflate(s, i + 2, out \o [k \in 1..s[i] |-> s[i + 1]])

zlib_decompress(s) == Inflate(s, 1, <<>>)

(***************************************************************************)
(* Segment enumeration: Rsc.files / Nrsc.files and file_offset             *)
(*                                                                         *)
(* A directory entry is [prefix, seq, suffix, data]: the file name is      *)
(* prefix, then a middle text, then suffix; seq is Some(n) when int() of   *)
(* the middle text is n and None when int() raises ValueError.  Two names  *)
(* may carry the same number ("1" and "01").  data is the file's content.  *)
(***************************************************************************)
RscName == "contents"

\* Rsc.parse_fname(rsc_name, fname)
Rsc_parse_fname(rsc_name, e) ==
    IF e.prefix = rsc_name \o "-" /\ e.suffix = ".rsc" THEN e.seq ELSE None

\* Nrsc.parse_fname(fname): the whole name before ".nrsc" must be a number
Nrsc_parse_fname(e) ==
    IF e.prefix = "" /\ e.suffix = ".nrsc" THEN e.seq ELSE None

\* ResourceFile(seqnum, len, offset, file)
ResourceFile(seqnum, data) ==
    [seqnum |-> seqnum, len |-> Len(data), offset |-> 0, file |-> data]

\* the loop that collects the matching entries, in listing order
RECURSIVE RscCollect(_, _)
RscCollect(rsc_name, entries) ==
    IF entries = <<>> THEN <<>>
    ELSE LET e == Head(entries)
             seq == Rsc_parse_fname(rsc_name, e)
             rest == RscCollect(rsc_name, Tail(entries))
         IN  IF seq # None THEN <<ResourceFile(seq[1], e.data)>> \o rest ELSE rest

RECURSIVE NrscCollect(_)
NrscCollect(entries) ==
    IF entries = <<>> THEN <<>>
    ELSE LET e == Head(entries)
             seq == Nrsc_parse_fname(e)
             rest == NrscCollect(Tail(entries))
         IN  IF seq # None THEN <<ResourceFile(seq[1], e.data)>> \o rest ELSE rest

\* list.sort(key=lambda f: f.seqnum): a stable sort
RECURSIVE InsertBySeq(_, _)
InsertBySeq(f, sorted) ==
    IF sorted = <<>> THEN <<f>>
    ELSE IF f.seqnum < Head(sorted).seqnum THEN <<f>> \o sorted
    ELSE <<Head(sorted)>> \o InsertBySeq(f, Tail(sorted))

RECURSIVE SortBySeq(_)
SortBySeq(fs) ==
    IF fs = <<>> THEN <<>>
    ELSE InsertBySeq(fs[Len(fs)], SortBySeq(SubSeq(fs, 1, Len(fs) - 1)))

\* a plausible slip: Rsc segments numbered from 0, as Nrsc segments are
RECURSIVE RscNumber_FromZero(_, _, _)
RscNumber_FromZero(fs, i, offset) ==
    IF i >= Len(fs) THEN Ok(fs)
    ELSE IF fs[i + 1].seqnum # i THEN Raise("FileNotFoundError")
    ELSE RscNumber_FromZero([fs EXCEPT ![i + 1].offset = offset], i + 1,
                            offset + fs[i + 1].len)

\* the numbering loop of Rsc.files: i is the 0-based position, offset the
\* running sum
RECURSIVE RscNumber(_, _, _)
RscNumber(fs, i, offset) ==
    IF i >= Len(fs) THEN Ok(fs)
    ELSE IF fs[i + 1].seqnum # i + 1 THEN Raise("FileNotFoundError")
    ELSE RscNumber([fs EXCEPT ![i + 1].offset = offset], i + 1, offset + fs[i + 1].len)

\* sum(fi.len for fi in files[:i])
RECURSIVE SumLen(_, _)
SumLen(fs, i) == IF i = 0 THEN 0 ELSE SumLen(fs, i - 1) + fs[i].len

\* the numbering loop of Nrsc.files
RECURSIVE NrscNumber(_, _)
NrscNumber(fs, i) ==
    IF i >= Len(fs) THEN Ok(fs)
    ELSE IF fs[i + 1].seqnum # i THEN Raise("Exception")
    ELSE NrscNumber([fs EXCEPT ![i + 1].offset = SumLen(fs, i)], i + 1)

\* Rsc.files(path, rsc_name)
Rsc_files(entries, rsc_name) == RscNumber(SortBySeq(RscCollect(rsc_name, entries)), 0, 0)

\* Nrsc.files(path)
Nrsc_files(entries) == NrscNumber(SortBySeq(NrscCollect(entries)), 0)

\* a plausible slip: the end of a file's range taken inclusive
RECURSIVE FileOffsetFrom_Inclusive(_, _, _)
FileOffsetFrom_Inclusive(fs, k, offset) ==
    IF k > Len(fs) THEN Raise("IndexError")
    ELSE IF fs[k].offset <= offset /\ offset <= fs[k].offset + fs[k].len
         THEN Ok([pos |-> k, file |-> fs[k].file, local |-> offset - fs[k].offset])
    ELSE FileOffsetFrom_Inclusive(fs, k + 1, offset)

\* file_offset(files, offset): the first file whose range holds the offset
RECURSIVE FileOffsetFrom(_, _, _)
FileOffsetFrom(fs, k, offset) ==
    IF k > Len(fs) THEN Raise("IndexError")
    ELSE IF fs[k].offset <= offset /\ offset < fs[k].offset + fs[k].len
         THEN Ok([pos |-> k, file |-> fs[k].file, local |-> offset - fs[k].offset])
    ELSE FileOffsetFrom(fs, k + 1, offset)

file_offset(fs, offset) == FileOffsetFrom(fs, 1, offset)

(***************************************************************************)
(* RscIndex                                                                *)
(***************************************************************************)
IdxRecord(item_id, map_idx) == [item_id |-> item_id, map_idx |-> map_idx]

MapRecord(zoffset, ioffset) == [zoffset |-> zoffset, ioffset |-> ioffset]

\* RscIndex(idx, map_): idx is None (no .idx file) or Some(list of IdxRecord)
RscIndex(idx, map_) == [idx |-> idx, map |-> map_]

\* the "Fast guess" loop over [id_, id_ - 1]: the first guess that hits
FastGuess(idx_list, id_) ==
    LET hit(guess) == /\ 0 <= guess
                      /\ guess < Len(idx_list)
                      /\ idx_list[guess + 1].item_id = id_
    IN  IF hit(id_) THEN Some(id_)
        ELSE IF hit(id_ - 1) THEN Some(id_ - 1)
        ELSE None

\* the "Binary search" loop: the value of low when low < high fails
RECURSIVE LowerBound(_, _, _, _)
LowerBound(idx_list, id_, low, high) ==
    IF low < high
    THEN LET mid == (low + high) \div 2
         IN  IF idx_list[mid + 1].item_id < id_
             THEN LowerBound(idx_list, id_, mid + 1, high)
             ELSE LowerBound(idx_list, id_, low, mid)
    ELSE low

\* RscIndex.get_map_idx_by_id(id_): Some(int) or None
get_map_idx_by_id(ix, id_) ==
    IF ix.idx = None THEN Some(id_)
    ELSE LET idx_list == ix.idx[1]
         IN  IF idx_list = <<>> THEN None
             ELSE IF FastGuess(idx_list, id_) # None THEN FastGuess(idx_list, id_)
             ELSE LET low == LowerBound(idx_list, id_, 0, Len(idx_list))
                  IN  IF low < Len(idx_list) /\ idx_list[low + 1].item_id = id_
                      THEN LET map_idx == idx_list[low + 1].map_idx
                           IN  IF map_idx >= Len(ix.map) THEN None ELSE Some(map_idx)
                      ELSE None

\* list[i] for an int i: negative indices count from the end
ListGet(l, i) ==
    IF 0 <= i /\ i < Len(l) THEN Ok(l[i + 1])
    ELSE IF i < 0 /\ -i <= Len(l) THEN Ok(l[Len(l) + i + 1])
    ELSE Raise("IndexError")

\* RscIndex.get_by_id(id_): self.map[self.get_map_idx_by_id(id_)];
\* a list indexed by None raises TypeError
RscIndex_get_by_id(ix, id_) ==
    LET m == get_map_idx_by_id(ix, id_)
    IN  IF m = None THEN Raise("TypeError") ELSE ListGet(ix.map, m[1])

\* RscIndex.get_by_idx(idx): Ok(Some(<<item_id, rec>>)), Ok(None) or an error.
\* "if self.idx" is false for None and for the empty list.
RscIndex_get_by_idx(ix, i) ==
    IF ix.idx # None /\ ix.idx[1] # <<>>
    THEN LET r == ListGet(ix.idx[1], i)
         IN  IF r.exc # "none" THEN Raise(r.exc)
             ELSE IF r.val.map_idx # i THEN Ok(None)
             ELSE IF ListGet(ix.map, i).exc # "none" THEN Raise("IndexError")
             ELSE Ok(Some(<<r.val.item_id, ListGet(ix.map, i).val>>))
    ELSE IF ListGet(ix.map, i).exc # "none" THEN Raise("IndexError")
         ELSE Ok(Some(<<i, ListGet(ix.map, i).val>>))

(***************************************************************************)
(* Rsc: the block reader and its one-slot cache                            *)
(*                                                                         *)
(* A cache value c is [zlib_buf, contents_buf, current_offset,             *)
(* current_len], the four mutable fields of an Rsc.  An operation yields   *)
(* [c, out, loads]: the fields after it, its outcome, and how many times   *)
(* it called load_contents.                                                *)
(***************************************************************************)
\* Rsc.__init__
RscInitCache ==
    [zlib_buf |-> <<>>, contents_buf |-> <<>>, current_offset |-> -1, current_len |-> 0]

\* a plausible slip: current_offset is assigned before the block is
\* decompressed, so a failed decompression leaves it naming the new block
load_contents_OffsetFirst(fs, c, zoffset) ==
    LET fo == file_offset(fs, zoffset)
    IN  IF fo.exc # "none" THEN [c |-> c, exc |-> fo.exc]
        ELSE
        LET f == fo.val.file
            raw_len == UnpackU32(FileRead(f, fo.val.local, 4))
        IN  IF raw_len.exc # "none" THEN [c |-> c, exc |-> raw_len.exc]
            ELSE
            LET zbuf == FileRead(f, fo.val.local + 4, raw_len.val)
                c1 == [c EXCEPT !.zlib_buf = zbuf, !.current_offset = zoffset]
                d == zlib_decompress(zbuf)
            IN  IF d.exc # "none" THEN [c |-> c1, exc |-> d.exc]
                ELSE [c |-> [c1 EXCEPT !.contents_buf = d.val,
                                       !.current_len = Len(d.val)],
                      exc |-> "none"]

\* Rsc.load_contents(zoffset): the fields are assigned in program order, so an
\* exception leaves the ones assigned before it changed
load_contents(fs, c, zoffset) ==
    LET fo == file_offset(fs, zoffset)
    IN  IF fo.exc # "none" THEN [c |-> c, exc |-> fo.exc]
        ELSE
        LET f == fo.val.file
            raw_len == UnpackU32(FileRead(f, fo.val.local, 4))
        IN  IF raw_len.exc # "none" THEN [c |-> c, exc |-> raw_len.exc]
            ELSE
            LET zbuf == FileRead(f, fo.val.local + 4, raw_len.val)
                c1 == [c EXCEPT !.zlib_buf = zbuf]
                d == zlib_decompress(zbuf)
            IN  IF d.exc # "none" THEN [c |-> c1, exc |-> d.exc]
                ELSE [c |-> [c1 EXCEPT !.contents_buf = d.val,
                                       !.current_offset = zoffset,
                                       !.current_len = Len(d.val)],
                      exc |-> "none"]

\* a plausible slip: reload only while nothing is cached
CacheMiss_OnlyWhenEmpty(c, rec) == c.current_offset = -1

\* the test "self.current_offset != rec.zoffset" of get_by_map
CacheMiss(c, rec) == c.current_offset # rec.zoffset

\* Rsc.get_by_map(rec)
get_by_map(fs, c, rec) ==
    LET miss == CacheMiss(c, rec)
        ld == IF miss THEN load_contents(fs, c, rec.zoffset) ELSE [c |-> c, exc |-> "none"]
        n == IF miss THEN 1 ELSE 0
        c1 == ld.c
        ioffset == rec.ioffset
    IN  IF ld.exc # "none" THEN [c |-> c1, out |-> Raise(ld.exc), loads |-> n]
        ELSE IF ioffset + 4 > c1.current_len
             THEN [c |-> c1, out |-> Raise("IndexError"), loads |-> n]
        ELSE LET length == UnpackU32(Slice(c1.contents_buf, ioffset, ioffset + 4)).val
             IN  [c |-> c1,
                  out |-> Ok(Slice(c1.contents_buf, ioffset + 4, ioffset + 4 + length)),
                  loads |-> n]

\* Rsc.get(id_)
Rsc_get(fs, ix, c, id_) ==
    LET rec == RscIndex_get_by_id(ix, id_)
    IN  IF rec.exc # "none" THEN [c |-> c, out |-> Raise(rec.exc), loads |-> 0]
        ELSE get_by_map(fs, c, rec.val)

\* Rsc.get_by_idx(idx): unpacking a None result raises TypeError
Rsc_get_by_idx(fs, ix, c, i) ==
    LET r == RscIndex_get_by_idx(ix, i)
    IN  IF r.exc # "none" THEN [c |-> c, out |-> Raise(r.exc), loads |-> 0]
        ELSE IF r.val = None THEN [c |-> c, out |-> Raise("TypeError"), loads |-> 0]
        ELSE LET g == get_by_map(fs, c, r.val[1][2])
             IN  IF g.out.exc # "none" THEN g
                 ELSE [g EXCEPT !.out = Ok(<<r.val[1][1], g.out.val>>)]

(***************************************************************************)
(* Nrsc: NrscIndex and NrscData                                            *)
(***************************************************************************)
Uncompressed == 0

Zlib == 1

NrscIdxRecord(format, fileseq, id_str_offset, file_offset_, length) ==
    [format |-> format, fileseq |-> fileseq, id_str_offset |-> id_str_offset,
     file_offset |-> file_offset_, length |-> length]

\* NrscIdxRecord.format_type()
format_type(rec) ==
    IF rec.format = Uncompressed THEN Ok(Uncompressed)
    ELSE IF rec.format = Zlib THEN Ok(Zlib)
    ELSE Raise("Exception")

\* the bytes on disk of one index record
NidxRecordBytes == 16

NidxHeaderBytes == 8

\* NrscIndex._string_data_offset()
string_data_offset(nix) == Len(nix.idx) * NidxRecordBytes + NidxHeaderBytes

\* a slice or search start that may be negative: it counts from the end
PyStart(s, i) == IF i < 0 THEN Max(0, Len(s) + i) ELSE i

\* str.index(ch, start): Some(position) of the first ch at or after start
RECURSIVE StrIndex(_, _, _)
StrIndex(s, ch, i) ==
    IF i >= Len(s) THEN None
    ELSE IF s[i + 1] = ch THEN Some(i)
    ELSE StrIndex(s, ch, i + 1)

\* NrscIndex.get_id_at(offset); the id strings are sequences of character
\* codes, 0 the terminator
get_id_at(nix, offset) ==
    LET relative == offset - string_data_offset(nix)
    IN  IF relative > 0 /\ ListGet(nix.ids, relative - 1).exc # "none" THEN Raise("IndexError")
        ELSE IF relative > 0 /\ ListGet(nix.ids, relative - 1).val # 0 THEN Raise("IndexError")
        ELSE LET end == StrIndex(nix.ids, 0, PyStart(nix.ids, relative))
             IN  IF end = None THEN Raise("IndexError")
                 ELSE Ok(Slice(nix.ids, PyStart(nix.ids, relative), end[1]))

\* NrscIndex.get_by_id(id_): Some(first record whose id string is id_) or None
RECURSIVE NrscGetByIdFrom(_, _, _)
NrscGetByIdFrom(nix, k, id_) ==
    IF k > Len(nix.idx) THEN None
    ELSE LET g == get_id_at(nix, nix.idx[k].id_str_offset)
         IN  IF g.exc = "none" /\ g.val = id_ THEN Some(nix.idx[k])
             ELSE NrscGetByIdFrom(nix, k + 1, id_)

NrscIndex_get_by_id(nix, id_) == NrscGetByIdFrom(nix, 1, id_)

\* NrscIndex.get_by_idx(idx)
NrscIndex_get_by_idx(nix, i) ==
    LET rec == ListGet(nix.idx, i)
    IN  IF rec.exc # "none" THEN Raise(rec.exc)
        ELSE LET id_str == get_id_at(nix, rec.val.id_str_offset)
             IN  IF id_str.exc # "none" THEN Raise(id_str.exc)
                 ELSE Ok(<<id_str.val, rec.val>>)

\* bytearray(length)
Zeros(n) == [k \in 1..n |-> 0]

\* file.readinto(buf) after file.seek(pos): fills the front of buf with as many
\* bytes as the file has from pos, at most len(buf); the rest of buf is kept
ReadInto(buf, f, pos) ==
    LET got == FileRead(f, pos, Len(buf))
    IN  got \o SubSeq(buf, Len(got) + 1, Len(buf))

\* the test "len(self.read_buf) < length" of get_by_nidx_rec
NeedNewBuf(buf, length) == Len(buf) < length

\* NrscData.get_by_nidx_rec(rec): [buf, out], the read_buf after the call and
\* the outcome
get_by_nidx_rec(fs, buf, rec) ==
    LET file == ListGet(fs, rec.fileseq)
    IN  IF file.exc # "none" THEN [buf |-> buf, out |-> Raise(file.exc)]
        ELSE
        LET length == rec.length
            buf1 == IF NeedNewBuf(buf, length) THEN Zeros(length) ELSE buf
            buf2 == ReadInto(buf1, file.val.file, rec.file_offset)
            fmt == format_type(rec)
        IN  IF fmt.exc # "none" THEN [buf |-> buf2, out |-> Raise(fmt.exc)]
            ELSE IF fmt.val = Uncompressed THEN [buf |-> buf2, out |-> Ok(buf2)]
            ELSE [buf |-> buf2, out |-> zlib_decompress(buf2)]

\* Nrsc.get(id_): a None record has no fileseq_index()
Nrsc_get(fs, nix, buf, id_) ==
    LET rec == NrscIndex_get_by_id(nix, id_)
    IN  IF rec = None THEN [buf |-> buf, out |-> Raise("AttributeError")]
        ELSE get_by_nidx_rec(fs, buf, rec[1])

\* Nrsc.get_by_idx(idx)
Nrsc_get_by_idx(fs, nix, buf, i) ==
    LET r == NrscIndex_get_by_idx(nix, i)
    IN  IF r.exc # "none" THEN [buf |-> buf, out |-> Raise(r.exc)]
        ELSE LET g == get_by_nidx_rec(fs, buf, r.val[2])
             IN  IF g.out.exc # "none" THEN g
                 ELSE [g EXCEPT !.out = Ok(<<r.val[1], g.out.val>>)]

(***************************************************************************)
(* Keys: words, page-lists and the exact search                            *)
(*                                                                         *)
(* A Keys value k is [offset_delta, word_index, word_data, index_prefix].  *)
(* A str is a sequence of code points.                                     *)
(***************************************************************************)
\* struct.unpack_from('<I', data, offset)[0], offset >= 0
UnpackFromU32(data, offset) ==
    IF offset + 4 > Len(data) THEN Raise("struct.error")
    ELSE Ok(data[offset + 1] + 256 * data[offset + 2] + 65536 * data[offset + 3]
            + 16777216 * data[offset + 4])

\* struct.unpack_from('<H', data, offset)[0], offset >= 0
UnpackFromU16(data, offset) ==
    IF offset + 2 > Len(data) THEN Raise("struct.error")
    ELSE Ok(data[offset + 1] + 256 * data[offset + 2])

\* bytes.find(b, start): the position of the first b at or after start, -1 if
\* there is none
RECURSIVE BytesFind(_, _, _)
BytesFind(data, b, start) ==
    IF start >= Len(data) THEN -1
    ELSE IF data[start + 1] = b THEN start
    ELSE BytesFind(data, b, start + 1)

\* bytes.decode('utf-8') of one-, two- and three-byte sequences
RECURSIVE Utf8Decode(_, _, _)
Utf8Decode(bs, i, out) ==
    IF i > Len(bs) THEN Ok(out)
    ELSE IF bs[i] < 128 THEN Utf8Decode(bs, i + 1, Append(out, bs[i]))
    ELSE IF bs[i] >= 192 /\ bs[i] < 224 /\ i + 1 <= Len(bs)
         THEN Utf8Decode(bs, i + 2, Append(out, (bs[i] - 192) * 64 + (bs[i + 1] - 128)))
    ELSE IF bs[i] >= 224 /\ bs[i] < 240 /\ i + 2 <= Len(bs)
         THEN Utf8Decode(bs, i + 3,
                 Append(out, (bs[i] - 224) * 4096 + (bs[i + 1] - 128) * 64 + (bs[i + 2] - 128)))
    ELSE Raise("UnicodeDecodeError")

\* str.encode(): UTF-8 of code points below 0x10000
RECURSIVE Utf8Encode(_)
Utf8Encode(str) ==
    IF str = <<>> THEN <<>>
    ELSE LET c == Head(str)
             b == IF c < 128 THEN <<c>>
                  ELSE IF c < 2048 THEN <<192 + (c \div 64), 128 + (c % 64)>>
                  ELSE <<224 + (c \div 4096), 128 + ((c \div 64) % 64), 128 + (c % 64)>>
         IN  b \o Utf8Encode(Tail(str))

\* Keys.get_word_span(offset): Ok(<<word, pages_offset>>); a word with no
\* terminator is cut at find()'s -1, the last byte of word_data
get_word_span(k, offset) ==
    LET pages_offset == UnpackFromU32(k.word_data, offset + k.offset_delta)
        word_start == offset + k.offset_delta + 5
        word_end == BytesFind(k.word_data, 0, word_start)
        word_bytes == Slice(k.word_data, word_start,
                            IF word_end < 0 THEN Len(k.word_data) - 1 ELSE word_end)
    IN  IF pages_offset.exc # "none" THEN Raise(pages_offset.exc)
        ELSE IF Utf8Decode(word_bytes, 1, <<>>).exc # "none" THEN Raise("UnicodeDecodeError")
        ELSE Ok(<<Utf8Decode(word_bytes, 1, <<>>).val, pages_offset.val>>)

\* word_data[i] for i >= 0
ByteAt(data, i) == IF i < Len(data) THEN Ok(data[i + 1]) ELSE Raise("IndexError")

\* a plausible slip: the two page-id bytes combined low byte first
PageOf2_LittleEndian(hi, lo) == lo * 256 + hi

\* (hi << 8) | lo
PageOf2(hi, lo) == hi * 256 + lo

\* (hi << 16) | (mid << 8) | lo
PageOf3(hi, mid, lo) == hi * 65536 + mid * 256 + lo

\* the body of the loop of Keys.get_page_iter, from the i-th reference on.
\* page and item are None while the local variable is unbound.  The outcome is
\* [pairs, exc]: the pairs yielded, and the exception that ended the iteration
\* ("none" when it ran to its end).
RECURSIVE PageIterFrom(_, _, _, _, _, _, _)
PageIterFrom(data, count, i, offset, page, item, out) ==
    IF i >= count THEN [pairs |-> out, exc |-> "none"]
    ELSE IF ByteAt(data, offset).exc # "none" THEN [pairs |-> out, exc |-> "IndexError"]
    ELSE
    LET tag == data[offset + 1]
        has_item == tag \div 16
        kind == tag % 16
        \* the page-id branch: [exc, offset, page, item]
        pg == IF kind = 1
              THEN IF ByteAt(data, offset + 1).exc # "none"
                   THEN [exc |-> "IndexError", offset |-> offset, page |-> page, item |-> item]
                   ELSE [exc |-> "none", offset |-> offset + 2,
                         page |-> Some(data[offset + 2]), item |-> Some(0)]
              ELSE IF kind = 2
              THEN IF Len(Slice(data, offset + 1, offset + 3)) # 2
                   THEN [exc |-> "ValueError", offset |-> offset, page |-> page, item |-> item]
                   ELSE [exc |-> "none", offset |-> offset + 3,
                         page |-> Some(PageOf2(data[offset + 2], data[offset + 3])),
                         item |-> Some(0)]
              ELSE IF kind = 4
              THEN IF Len(Slice(data, offset + 1, offset + 4)) # 3
                   THEN [exc |-> "ValueError", offset |-> offset, page |-> page, item |-> item]
                   ELSE [exc |-> "none", offset |-> offset + 4,
                         page |-> Some(PageOf3(data[offset + 2], data[offset + 3],
                                               data[offset + 4])),
                         item |-> Some(0)]
              ELSE [exc |-> "none", offset |-> offset, page |-> page, item |-> item]
        \* the item-id branch
        it == IF pg.exc # "none" THEN pg
              ELSE IF has_item = 1
              THEN IF ByteAt(data, pg.offset).exc # "none"
                   THEN [pg EXCEPT !.exc = "IndexError"]
                   ELSE [pg EXCEPT !.item = Some(data[pg.offset + 1]), !.offset = pg.offset + 1]
              ELSE IF has_item = 2
              THEN IF ByteAt(data, pg.offset + 1).exc # "none"
                   THEN [pg EXCEPT !.exc = "IndexError"]
                   ELSE [pg EXCEPT !.item = Some(data[pg.offset + 1] * 256 + data[pg.offset + 2]),
                                   !.offset = pg.offset + 2]
              ELSE pg
    IN  IF it.exc # "none" THEN [pairs |-> out, exc |-> it.exc]
        ELSE IF it.page = None \/ it.item = None
             THEN [pairs |-> out, exc |-> "UnboundLocalError"]
        ELSE PageIterFrom(data, count, i + 1, it.offset, it.page, it.item,
                          Append(out, <<it.page[1], it.item[1]>>))

\* list(Keys.get_page_iter(pages_offset))
get_page_iter(k, pages_offset) ==
    LET offset == pages_offset + k.offset_delta
        count == UnpackFromU16(k.word_data, offset)
    IN  IF count.exc # "none" THEN [pairs |-> <<>>, exc |-> count.exc]
        ELSE PageIterFrom(k.word_data, count.val, 0, offset + 2, None, None, <<>>)

\* ord('ぁ'), ord('ん') and ord('ア') - ord('あ')
HiraganaFirst == 12353

HiraganaLast == 12435

KatakanaShift == 96

\* to_katakana(input_str)
to_katakana(str) ==
    [i \in 1..Len(str) |->
        IF HiraganaFirst <= str[i] /\ str[i] <= HiraganaLast THEN str[i] + KatakanaShift
        ELSE str[i]]

\* index.len() and index.get(idx) on the value read_vec returns, a Python list
\* (or None): neither has such a method, the attribute lookup raises
list_len_method(l) == Raise("AttributeError")

list_get_method(l, idx) == Raise("AttributeError")

\* self.words: Keys.__init__ sets no attribute of that name
self_words(k) == Raise("AttributeError")

\* a < b for bytes objects
RECURSIVE BytesLess(_, _)
BytesLess(a, b) ==
    IF b = <<>> THEN FALSE
    ELSE IF a = <<>> THEN TRUE
    ELSE IF Head(a) # Head(b) THEN Head(a) < Head(b)
    ELSE BytesLess(Tail(a), Tail(b))

\* Keys.cmp_key(target, idx); len(target) counts code points
cmp_key(k, target, idx) ==
    LET offset == list_get_method(k.index_prefix, idx)
        raw == self_words(k)
    IN  IF offset.exc # "none" THEN Raise(offset.exc)
        ELSE IF raw.exc # "none" THEN Raise(raw.exc)
        ELSE IF offset.val + Len(target) + 1 > Len(raw.val) THEN Raise("IndexError")
        ELSE LET found_tail == Slice(raw.val, offset.val, Len(raw.val))
                 found == Slice(found_tail, 0, Len(target))
                 enc == Utf8Encode(target)
             IN  IF found = enc
                 THEN IF found_tail[Len(target) + 1] = 0 THEN Ok(0) ELSE Ok(1)
                 ELSE Ok((IF BytesLess(enc, found) THEN 1 ELSE 0)
                         - (IF BytesLess(found, enc) THEN 1 ELSE 0))

\* Keys.get_idx(index, idx): Ok(Some(<<word, pairs>>)) or Ok(None)
get_idx(k, ix, idx) ==
    LET n == list_len_method(ix)
    IN  IF n.exc # "none" THEN Raise(n.exc)
        ELSE IF idx >= n.val THEN Ok(None)
        ELSE LET offset == list_get_method(ix, idx)
             IN  IF offset.exc # "none" THEN Raise(offset.exc)
                 ELSE LET ws == get_word_span(k, offset.val)
                      IN  IF ws.exc # "none" THEN Raise(ws.exc)
                          ELSE Ok(Some(<<ws.val[1], get_page_iter(k, ws.val[2])>>))

\* the while loop of Keys.search_exact: Ok(Some(<<mid, page iterator>>)) when
\* an entry compares equal, Ok(None) when low > high
RECURSIVE SearchLoop(_, _, _, _)
SearchLoop(k, target_key, low, high) ==
    IF low <= high
    THEN LET mid == (low + high) \div 2
             cmp == cmp_key(k, target_key, mid)
         IN  IF cmp.exc # "none" THEN Raise(cmp.exc)
             ELSE IF cmp.val < 0 THEN SearchLoop(k, target_key, mid + 1, high)
             ELSE IF cmp.val > 0 THEN SearchLoop(k, target_key, low, mid - 1)
             ELSE LET e == get_idx(k, k.index_prefix, mid)
                  IN  IF e.exc # "none" THEN Raise(e.exc)
                      ELSE IF e.val = None THEN Raise("TypeError")
                      ELSE Ok(Some(<<mid, e.val[1][2]>>))
    ELSE Ok(None)

\* Keys.search_exact(target_key)
search_exact(k, target_key) ==
    LET high == list_len_method(k.index_prefix)
    IN  IF high.exc # "none" THEN Raise(high.exc)
        ELSE SearchLoop(k, to_katakana(target_key), 0, high.val)

(***************************************************************************)
(* Headlines                                                               *)
(***************************************************************************)
\* Offset(page_id, item_id, item_type, offset)
Offset(page_id, item_id, item_type, offset) ==
    [page_id |-> page_id, item_id |-> item_id, item_type |-> item_type, offset |-> offset]

\* bytes.find(b'\0\0', start): -1 if there is none
RECURSIVE FindDoubleNul(_, _)
FindDoubleNul(data, start) ==
    IF start + 2 > Len(data) THEN -1
    ELSE IF data[start + 1] = 0 /\ data[start + 2] = 0 THEN start
    ELSE FindDoubleNul(data, start + 1)

\* bytes.decode('utf-16') of little-endian code units without surrogates; a
\* trailing odd byte is an error
RECURSIVE Utf16Decode(_)
Utf16Decode(bs) ==
    IF bs = <<>> THEN Ok(<<>>)
    ELSE IF Len(bs) = 1 THEN Raise("UnicodeDecodeError")
    ELSE LET rest == Utf16Decode(SubSeq(bs, 3, Len(bs)))
         IN  IF rest.exc # "none" THEN rest
             ELSE Ok(<<bs[1] + 256 * bs[2]>> \o rest.val)

\* Headlines.get_word(rec)
get_word(ws, rec) ==
    LET offset == rec.offset
        found == FindDoubleNul(ws, offset)
        end == IF found % 2 = 1 THEN found + 1 ELSE found
    IN  IF found = -1 THEN Raise("Exception: No null terminator")
        ELSE Utf16Decode(Slice(ws, offset, end))

\* (a1, a2) < (b1, b2) for tuples
TupleLess(a1, a2, b1, b2) == a1 < b1 \/ (a1 = b1 /\ a2 < b2)

\* a plausible slip: the search gives up the upper half on a smaller record
RECURSIVE HeadlinesSearch_Swapped(_, _, _, _, _)
HeadlinesSearch_Swapped(rs, ws, id, low, high) ==
    IF low <= high
    THEN LET mid == (low + high) \div 2
             rec == ListGet(rs, mid)
         IN  IF rec.exc # "none" THEN Raise(rec.exc)
             ELSE IF rec.val.page_id = id.page /\ rec.val.item_id = id.item
                  THEN get_word(ws, rec.val)
             ELSE IF TupleLess(rec.val.page_id, rec.val.item_id, id.page, id.item)
                  THEN HeadlinesSearch_Swapped(rs, ws, id, low, mid - 1)
             ELSE HeadlinesSearch_Swapped(rs, ws, id, mid + 1, high)
    ELSE Raise("Exception: InvalidIndex")

\* the while loop of Headlines.get
RECURSIVE HeadlinesSearch(_, _, _, _, _)
HeadlinesSearch(rs, ws, id, low, high) ==
    IF low <= high
    THEN LET mid == (low + high) \div 2
             rec == ListGet(rs, mid)
         IN  IF rec.exc # "none" THEN Raise(rec.exc)
             ELSE IF rec.val.page_id = id.page /\ rec.val.item_id = id.item
                  THEN get_word(ws, rec.val)
             ELSE IF TupleLess(rec.val.page_id, rec.val.item_id, id.page, id.item)
                  THEN HeadlinesSearch(rs, ws, id, mid + 1, high)
             ELSE HeadlinesSearch(rs, ws, id, low, mid - 1)
    ELSE Raise("Exception: InvalidIndex")

\* Headlines.get(id)
Headlines_get(rs, ws, id) == HeadlinesSearch(rs, ws, id, 0, Len(rs) - 1)

(***************************************************************************)
(* Opening a key file and a headline file                                  *)
(***************************************************************************)
\* struct.unpack('<kI', raw): raw must be exactly 4k bytes
UnpackWords(raw, k) ==
    IF Len(raw) # 4 * k THEN Raise("struct.error")
    ELSE Ok([i \in 1..k |-> UnpackFromU32(raw, 4 * (i - 1)).val])

\* read_vec(f, start): out is the outcome (None on short data, else the list),
\* tell the file position afterwards
read_vec(img, start) ==
    LET raw == FileRead(img, start, 4)
        count == UnpackU32(raw)
        body == FileRead(img, start + 4, 4 * count.val)
    IN  IF count.exc # "none"
        THEN [out |-> Raise(count.exc), tell |-> start + Len(raw)]
        ELSE [out |-> IF Len(body) < 4 * count.val THEN Ok(None)
                      ELSE Ok(Some(UnpackWords(body, count.val).val)),
              tell |-> start + 4 + Len(body)]

\* keys.FileHeader(ver, magic1, words_offset, idx_offset, next_offset, magic5,
\* magic6, magic7)
FileHeader(ver, magic1, words_offset, idx_offset, next_offset, magic5, magic6, magic7) ==
    [ver |-> ver, magic1 |-> magic1, words_offset |-> words_offset,
     idx_offset |-> idx_offset, next_offset |-> next_offset, magic5 |-> magic5,
     magic6 |-> magic6, magic7 |-> magic7]

\* keys.FileHeader.from_file(f), f at position 0
FileHeader_from_file(img) ==
    LET u == UnpackWords(FileRead(img, 0, 16), 4)
    IN  IF u.exc # "none" THEN Raise(u.exc)
        ELSE
        LET ver == u.val[1]
            magic1 == u.val[2]
            words_offset == u.val[3]
            idx_offset == u.val[4]
            v1 == ver = 65536 /\ words_offset = 16
            v2 == ver = 131072 /\ words_offset = 32
            extra == IF v1 THEN Zeros(12) ELSE FileRead(img, 16, 12)
            e == UnpackWords(Slice(extra, 0, 12), 3)
        IN  IF ~v1 /\ ~v2 THEN Raise("Exception: Key header is invalid.")
            ELSE IF e.exc # "none" THEN Raise(e.exc)
            ELSE
            LET next_offset == e.val[1]
                magic5 == e.val[2]
                magic6 == e.val[3]
            IN  IF ver = 65536 /\ magic1 = 0 /\ words_offset < idx_offset
                THEN Ok(FileHeader(ver, magic1, words_offset, idx_offset, 0, 0, 0, 0))
                ELSE IF /\ ver = 131072 /\ magic1 = 0 /\ magic5 = 0 /\ magic6 = 0
                        /\ words_offset < idx_offset
                        /\ (next_offset = 0 \/ idx_offset < next_offset)
                THEN Ok(FileHeader(ver, magic1, words_offset, idx_offset, next_offset,
                                   magic5, magic6, 0))
                ELSE Raise("Exception: Key header is invalid.")

\* IndexHeader(magic, index_a_offset, index_b_offset, index_c_offset, index_d_offset)
IndexHeader(magic, a, b, c, d) ==
    [magic |-> magic, index_a_offset |-> a, index_b_offset |-> b, index_c_offset |-> c,
     index_d_offset |-> d]

\* IndexHeader.from_file(f), f at position pos
IndexHeader_from_file(img, pos) ==
    LET u == UnpackWords(FileRead(img, pos, 20), 5)
    IN  IF u.exc # "none" THEN Raise(u.exc)
        ELSE Ok(IndexHeader(u.val[1], u.val[2], u.val[3], u.val[4], u.val[5]))

\* check(l, r) of IndexHeader.validate
check(l, r) == l < r \/ r = 0

\* IndexHeader.validate(idx_end)
IndexHeader_validate(ih, idx_end) ==
    IF /\ ih.magic = 4
       /\ check(ih.index_a_offset, ih.index_b_offset)
       /\ check(ih.index_b_offset, ih.index_c_offset)
       /\ check(ih.index_c_offset, ih.index_d_offset)
       /\ check(ih.index_d_offset, idx_end)
    THEN Ok(None)
    ELSE Raise("Exception: Key index header is invalid.")

\* read_vec(f, off + hdr.idx_offset) if off else []
IndexVec(img, idx_offset, off) ==
    IF off # 0 THEN read_vec(img, off + idx_offset).out ELSE Ok(Some(<<>>))

\* the list of an Optional list, <<>> for None
ListOf(opt) == IF opt = None THEN <<>> ELSE opt[1]

\* Keys.__init__(path) on a file with content img.  In the object built,
\* missing names the attributes that are None
Keys_init(img) ==
    LET file_size == Len(img)
        hdr == FileHeader_from_file(img)
    IN  IF hdr.exc # "none" THEN hdr
        ELSE
        LET h == hdr.val
            wi == read_vec(img, h.words_offset)
            offset_delta == h.words_offset - wi.tell
            idx_end == IF h.next_offset # 0 THEN h.next_offset ELSE file_size
            n == h.idx_offset - wi.tell
            word_data == IF n = -1 THEN Slice(img, wi.tell, file_size)
                         ELSE FileRead(img, wi.tell, n)
            ihdr == IndexHeader_from_file(img, h.idx_offset)
            valid == IndexHeader_validate(ihdr.val, idx_end)
            va == IndexVec(img, h.idx_offset, ihdr.val.index_a_offset)
            vb == IndexVec(img, h.idx_offset, ihdr.val.index_b_offset)
            vc == IndexVec(img, h.idx_offset, ihdr.val.index_c_offset)
            vd == IndexVec(img, h.idx_offset, ihdr.val.index_d_offset)
        IN  IF wi.out.exc # "none" THEN wi.out
            ELSE IF n < -1 THEN Raise("ValueError")
            ELSE IF ihdr.exc # "none" THEN ihdr
            ELSE IF valid.exc # "none" THEN valid
            ELSE IF va.exc # "none" THEN va
            ELSE IF vb.exc # "none" THEN vb
            ELSE IF vc.exc # "none" THEN vc
            ELSE IF vd.exc # "none" THEN vd
            ELSE Ok([offset_delta |-> offset_delta,
                     word_index |-> ListOf(wi.out.val),
                     word_data |-> word_data,
                     index_len |-> ListOf(va.val),
                     index_prefix |-> ListOf(vb.val),
                     index_suffix |-> ListOf(vc.val),
                     index_unordered |-> ListOf(vd.val),
                     missing |-> {nm \in {"word_index", "index_len", "index_prefix",
                                          "index_suffix", "index_unordered"} :
                                     CASE nm = "word_index" -> wi.out.val = None
                                       [] nm = "index_len" -> va.val = None
                                       [] nm = "index_prefix" -> vb.val = None
                                       [] nm = "index_suffix" -> vc.val = None
                                       [] OTHER -> vd.val = None}])

\* headlines.FileHeader.from_file(f): Error is not a name of the module, so
\* raising it is a NameError
HeadlineHeader_from_file(img) ==
    LET data == FileRead(img, 0, 32)
        u == UnpackWords(data, 8)
    IN  IF Len(data) < 32 THEN Raise("NameError")
        ELSE Ok([magic1 |-> u.val[1], magic2 |-> u.val[2], length |-> u.val[3],
                 rec_offset |-> u.val[4], words_offset |-> u.val[5],
                 rec_bytes |-> u.val[6], magic4 |-> u.val[7], magic5 |-> u.val[8]])

\* headlines.FileHeader.validate()
HeadlineHeader_validate(h) ==
    IF /\ h.magic1 = 0 /\ h.magic2 = 2 /\ h.rec_bytes = 24 /\ h.magic4 = 0 /\ h.magic5 = 0
    THEN Ok(None)
    ELSE Raise("Exception: KeyFile header is invalid.")

\* Offset.from_bytes(data): '<IBBHIIII'
Offset_from_bytes(data) ==
    IF Len(data) # 24 THEN Raise("Exception: Invalid offset entry size")
    ELSE Ok(Offset(UnpackFromU32(data, 0).val, data[5], data[6],
                   UnpackFromU32(data, 8).val))

\* the loop of from_path over rec_data[i:i + 24], i = 0, 24, ..
RECURSIVE ReadOffsets(_, _, _)
ReadOffsets(rec_data, i, rec_size) ==
    IF i >= rec_size THEN Ok(<<>>)
    ELSE LET rec == Offset_from_bytes(Slice(rec_data, i, i + 24))
             rest == ReadOffsets(rec_data, i + 24, rec_size)
         IN  IF rec.exc # "none" THEN rec
             ELSE IF rest.exc # "none" THEN rest
             ELSE Ok(<<rec.val>> \o rest.val)

\* Headlines.from_path(file_path) on a file with content img
Headlines_from_path(img) ==
    LET hdr == HeadlineHeader_from_file(img)
    IN  IF hdr.exc # "none" THEN hdr
        ELSE
        LET h == hdr.val
            valid == HeadlineHeader_validate(h)
            rec_size == h.words_offset - h.rec_offset
            rec_data == IF rec_size = -1 THEN Slice(img, h.rec_offset, Len(img))
                        ELSE FileRead(img, h.rec_offset, rec_size)
            rs == ReadOffsets(rec_data, 0, rec_size)
            words_data == Slice(img, h.words_offset, Len(img))
        IN  IF valid.exc # "none" THEN valid
            ELSE IF rec_size < -1 THEN Raise("ValueError")
            ELSE IF Len(rec_data) # rec_size THEN Raise("Exception: Failed to read offsets")
            ELSE IF rs.exc # "none" THEN rs
            ELSE IF words_data = <<>> THEN Raise("Exception: No words section")
            ELSE Ok([recs |-> rs.val, words |-> words_data])

(***************************************************************************)
(* Loading the record arrays: RscIndex.load_idx, RscIndex.load_map and     *)
(* NrscIndex.new                                                           *)
(***************************************************************************)
\* [X.from_bytes(f.read(8)) for _ in range(n)] with f at pos, X one of
\* IdxRecord and MapRecord: struct.unpack('<II', data) of each 8 bytes read
RECURSIVE ReadPairs(_, _, _)
ReadPairs(img, pos, n) ==
    IF n = 0 THEN Ok(<<>>)
    ELSE LET data == FileRead(img, pos, 8)
             u == UnpackWords(data, 2)
             rest == ReadPairs(img, pos + Len(data), n - 1)
         IN  IF u.exc # "none" THEN Raise(u.exc)
             ELSE IF rest.exc # "none" THEN rest
             ELSE Ok(<<u.val>> \o rest.val)

\* RscIndex.load_idx(path): exists says whether the .idx file is there
load_idx(exists, img) ==
    LET length == UnpackU32(FileRead(img, 0, 4))
        pairs == ReadPairs(img, 8, length.val)
    IN  IF ~exists THEN Ok(None)
        ELSE IF length.exc # "none" THEN Raise(length.exc)
        ELSE IF pairs.exc # "none" THEN pairs
        ELSE Ok(Some([i \in 1..Len(pairs.val) |->
                         IdxRecord(pairs.val[i][1], pairs.val[i][2])]))

\* RscIndex.load_map(path)
load_map(img) ==
    LET length == UnpackU32(FileRead(img, 4, 4))
        pairs == ReadPairs(img, 8, length.val)
    IN  IF length.exc # "none" THEN Raise(length.exc)
        ELSE IF pairs.exc # "none" THEN pairs
        ELSE Ok([i \in 1..Len(pairs.val) |-> MapRecord(pairs.val[i][1], pairs.val[i][2])])

\* NrscIdxRecord.from_bytes(data): struct.unpack('<HHIII', data)
NrscIdxRecord_from_bytes(data) ==
    IF Len(data) # NidxRecordBytes THEN Raise("struct.error")
    ELSE Ok(NrscIdxRecord(UnpackFromU16(data, 0).val, UnpackFromU16(data, 2).val,
                          UnpackFromU32(data, 4).val, UnpackFromU32(data, 8).val,
                          UnpackFromU32(data, 12).val))

\* the list comprehension of NrscIndex.new over idx_data[i:i + 16]
RECURSIVE ReadNidxRecords(_, _, _)
ReadNidxRecords(idx_data, i, idx_size) ==
    IF i >= idx_size THEN Ok(<<>>)
    ELSE LET rec == NrscIdxRecord_from_bytes(Slice(idx_data, i, i + NidxRecordBytes))
             rest == ReadNidxRecords(idx_data, i + NidxRecordBytes, idx_size)
         IN  IF rec.exc # "none" THEN rec
             ELSE IF rest.exc # "none" THEN rest
             ELSE Ok(<<rec.val>> \o rest.val)

\* bytes.decode("utf-8", errors="replace"): a byte that is not part of a
\* well-formed sequence of one, two or three bytes becomes U+FFFD
RECURSIVE Utf8DecodeReplace(_, _)
Utf8DecodeReplace(bs, i) ==
    LET cont(k) == k <= Len(bs) /\ bs[k] >= 128 /\ bs[k] < 192
    IN  IF i > Len(bs) THEN <<>>
        ELSE IF bs[i] < 128 THEN <<bs[i]>> \o Utf8DecodeReplace(bs, i + 1)
        ELSE IF bs[i] >= 194 /\ bs[i] < 224 /\ cont(i + 1)
             THEN <<(bs[i] - 192) * 64 + (bs[i + 1] - 128)>> \o Utf8DecodeReplace(bs, i + 2)
        ELSE IF bs[i] > 224 /\ bs[i] < 240 /\ bs[i] # 237 /\ cont(i + 1) /\ cont(i + 2)
             THEN <<(bs[i] - 224) * 4096 + (bs[i + 1] - 128) * 64 + (bs[i + 2] - 128)>>
                  \o Utf8DecodeReplace(bs, i + 3)
        ELSE <<65533>> \o Utf8DecodeReplace(bs, i + 1)

\* NrscIndex.new(path) on an index.nidx with content img
NrscIndex_new(img) ==
    LET header == FileRead(img, 0, NidxHeaderBytes)
        length == UnpackU32(Slice(header, 4, 8))
        idx_size == length.val * NidxRecordBytes
        idx_data == FileRead(img, Len(header), idx_size)
        idx == ReadNidxRecords(idx_data, 0, idx_size)
        ids == Utf8DecodeReplace(Slice(img, Len(header) + Len(idx_data), Len(img)), 1)
    IN  IF length.exc # "none" THEN Raise(length.exc)
        ELSE IF idx.exc # "none" THEN idx
        ELSE Ok([idx |-> idx.val, ids |-> ids])

(***************************************************************************)
(* The Rsc store under test.  Four blocks in two segment files:            *)
(*   logical offset  0  block A, 16 bytes inflated, sub-records at 0, 6    *)
(*                      and 11 (the last declares 5 bytes and has 1)       *)
(*   logical offset 23  block B, 5 bytes inflated, sub-record at 0         *)
(*   logical offset 34  block C (start of the second file), sub-record 0   *)
(*   logical offset 45  block D, whose stream ends before its terminator   *)
(*   logical offset 49  two bytes before the end: no whole length prefix   *)
(*   logical offset 51  the end of the address space                       *)
(***************************************************************************)
RscSeg1 ==
    <<19, 0, 0, 0,  1, 2, 3, 0, 2, 7, 1, 1, 3, 0, 1, 9, 1, 5, 3, 0, 1, 8, 0,
      7, 0, 0, 0,   1, 1, 3, 0, 1, 4, 0>>

RscSeg2 ==
    <<7, 0, 0, 0,   1, 3, 3, 0, 3, 6, 0,
      9, 0, 0, 0,   1, 5>>

RscDir ==
    << [prefix |-> "contents-", seq |-> Some(2), suffix |-> ".rsc", data |-> RscSeg2],
       [prefix |-> "contents", seq |-> None, suffix |-> ".map", data |-> <<>>],
       [prefix |-> "contents-", seq |-> Some(1), suffix |-> ".rsc", data |-> RscSeg1] >>

\* the map array of the store: (zoffset, ioffset) of the four sub-records
RscMap == << MapRecord(0, 0), MapRecord(0, 6), MapRecord(23, 0), MapRecord(34, 0) >>

\* block offsets and inner offsets a caller of get_by_map may pass
ZOffsets == {0, 23, 34, 45, 49, 51}

IOffsets == {0, 6, 11, 14}

\* the shapes of the sparse index of the store under test
RscIdxShapes ==
    { None,
      Some(<<>>),
      Some(<< IdxRecord(0, 0), IdxRecord(1, 1), IdxRecord(2, 2), IdxRecord(3, 3) >>),
      Some(<< IdxRecord(1, 0), IdxRecord(3, 1), IdxRecord(5, 2), IdxRecord(6, 3) >>) }

\* the largest id passed to Rsc.get / position passed to Rsc.get_by_idx
MaxLookup == 6

NoCall ==
    [op |-> "open", arg |-> <<>>, zoffset |-> None, before |-> -1, loads |-> 0,
     out |-> Ok(<<>>), prev |-> None]

\* what is remembered of the call before the last one
Summary(cl) == [zoffset |-> cl.zoffset, before |-> cl.before, loads |-> cl.loads,
                exc |-> cl.out.exc]

Cache == [zlib_buf |-> zlib_buf, contents_buf |-> contents_buf,
          current_offset |-> current_offset, current_len |-> current_len]

SetCache(c) ==
    /\ zlib_buf' = c.zlib_buf
    /\ contents_buf' = c.contents_buf
    /\ current_offset' = c.current_offset
    /\ current_len' = c.current_len

\* Rsc.new: the index is loaded, the segment files enumerated, the cache empty
InitRsc ==
    /\ store = "rsc"
    /\ dir = RscDir
    /\ files = Some(Rsc_files(RscDir, RscName).val)
    /\ index \in {RscIndex(i, RscMap) : i \in RscIdxShapes}
    /\ zlib_buf = RscInitCache.zlib_buf
    /\ contents_buf = RscInitCache.contents_buf
    /\ current_offset = RscInitCache.current_offset
    /\ current_len = RscInitCache.current_len
    /\ read_buf = <<>>
    /\ keys = <<>>
    /\ recs = <<>>
    /\ words = <<>>
    /\ image = <<>>
    /\ call = NoCall

RscCall(op, arg, zoffset, r) ==
    /\ SetCache(r.c)
    /\ call' = [op |-> op, arg |-> arg, zoffset |-> zoffset, before |-> current_offset,
                loads |-> r.loads, out |-> r.out, prev |-> Some(Summary(call))]
    /\ UNCHANGED <<store, dir, files, index, read_buf, keys, recs, words, image>>

\* a call of rsc.get_by_map(rec)
GetByMap ==
    /\ store = "rsc"
    /\ \E z \in ZOffsets, i \in IOffsets :
          RscCall("get_by_map", <<z, i>>, Some(z),
                  get_by_map(files[1], Cache, MapRecord(z, i)))

\* a call of rsc.get(id_)
Get ==
    /\ store = "rsc"
    /\ \E id_ \in 0..MaxLookup :
          LET rec == RscIndex_get_by_id(index, id_)
          IN  RscCall("get", id_,
                      IF rec.exc = "none" THEN Some(rec.val.zoffset) ELSE None,
                      Rsc_get(files[1], index, Cache, id_))

\* a call of rsc.get_by_idx(idx)
GetByIdx ==
    /\ store = "rsc"
    /\ \E i \in 0..MaxLookup :
          LET r == RscIndex_get_by_idx(index, i)
          IN  RscCall("get_by_idx", i,
                      IF r.exc = "none" /\ r.val # None THEN Some(r.val[1][2].zoffset)
                      ELSE None,
                      Rsc_get_by_idx(files[1], index, Cache, i))

NextRsc == GetByMap \/ Get \/ GetByIdx

SpecRsc == InitRsc /\ [][NextRsc]_vars

(***************************************************************************)
(* C1: the block cache                                                     *)
(***************************************************************************)
\* whether the block at logical offset z can be read and decompressed
Loadable(z) == load_contents(files[1], RscInitCache, z).exc = "none"

BlockAt(z) == load_contents(files[1], RscInitCache, z).c.contents_buf

IsFetch == store = "rsc" /\ call.op \in {"get", "get_by_idx", "get_by_map"}

\* C1 as stated: load_contents runs on a call exactly when the record's
\* zoffset differs from the cached one, and of two consecutive fetches of
\* records sharing a zoffset only the first can cause a decompression (the
\* pair causes exactly one, or none when the block was cached before it).
C1_AsStated ==
    IsFetch =>
       /\ call.zoffset # None => (call.loads = 1 <=> call.zoffset[1] # call.before)
       /\ (call.zoffset # None /\ call.prev # None /\ call.prev[1].zoffset = call.zoffset)
             => /\ call.loads = 0
                /\ call.prev[1].loads + call.loads =
                      (IF call.prev[1].before = call.zoffset[1] THEN 0 ELSE 1)

\* C1, amended: load_contents runs on a call exactly when the call resolves a
\* record whose zoffset differs from current_offset (-1 while nothing is
\* cached); a load that succeeds replaces the cached block by the block at that
\* zoffset, a load that fails leaves current_offset as it was; and two
\* consecutive fetches of records sharing a zoffset whose block can be read and
\* decompressed cause exactly one decompression, by the first of them (none if
\* the block was cached before it).
C1_BlockCache ==
    IsFetch =>
       /\ call.loads \in {0, 1}
       /\ call.zoffset = None => call.loads = 0 /\ current_offset = call.before
       /\ call.zoffset # None =>
             LET z == call.zoffset[1]
             IN  /\ call.loads = 1 <=> z # call.before
                 /\ (call.loads = 1 /\ Loadable(z)) =>
                        current_offset = z /\ contents_buf = BlockAt(z)
                 /\ (call.loads = 1 /\ ~Loadable(z)) =>
                        current_offset = call.before /\ call.out.exc # "none"
                 /\ call.loads = 0 => current_offset = call.before
                 /\ (call.prev # None /\ call.prev[1].zoffset = call.zoffset /\ Loadable(z))
                       => /\ call.loads = 0
                          /\ call.prev[1].loads + call.loads =
                                (IF call.prev[1].before = z THEN 0 ELSE 1)

\* block A is fetched from the cache, then a fetch of block B reloads and
\* replaces it
C1_Witness ==
    /\ IsFetch
    /\ call.prev # None
    /\ call.prev[1].zoffset = Some(0)
    /\ call.prev[1].loads = 0
    /\ call.zoffset = Some(23)
    /\ call.loads = 1
    /\ current_offset = 23
    /\ contents_buf = <<1, 0, 0, 0, 4>>

(***************************************************************************)
(* The Nrsc store under test: two segment files, four indexed records      *)
(*   "a"  file 0, offset 0, 4 bytes, uncompressed                          *)
(*   "b"  file 0, offset 4, 5 bytes, compressed (inflates to 20 21 21)     *)
(*   "c"  file 1, offset 0, 2 bytes, uncompressed                          *)
(*   "d"  file 0, offset 9, 1 byte,  uncompressed                          *)
(***************************************************************************)
NrscSeg0 == <<10, 11, 12, 13,  1, 20, 2, 21, 0,  14>>

NrscSeg1 == <<30, 31, 32>>

NrscDir ==
    << [prefix |-> "", seq |-> Some(1), suffix |-> ".nrsc", data |-> NrscSeg1],
       [prefix |-> "index", seq |-> None, suffix |-> ".nidx", data |-> <<>>],
       [prefix |-> "", seq |-> Some(0), suffix |-> ".nrsc", data |-> NrscSeg0] >>

NrscIdx ==
    [idx |-> << NrscIdxRecord(Uncompressed, 0, 72, 0, 4),
                NrscIdxRecord(Zlib, 0, 74, 4, 5),
                NrscIdxRecord(Uncompressed, 1, 76, 0, 2),
                NrscIdxRecord(Uncompressed, 0, 78, 9, 1) >>,
     ids |-> <<97, 0, 98, 0, 99, 0, 100, 0>>]

\* id strings a caller may ask for: "a" .. "d", and the unknown "e" and ""
NrscIds == { <<97>>, <<98>>, <<99>>, <<100>>, <<101>>, <<>> }

\* the longest record a caller of get_by_nidx_rec declares
MaxRecLen == 5

\* records a caller of get_by_nidx_rec may pass
NrscRecs ==
    { NrscIdxRecord(fmt, seq, 0, off, n) :
        fmt \in {Uncompressed, Zlib, 2}, seq \in 0..2, off \in {0, 4, 9}, n \in 0..MaxRecLen }

\* Nrsc.new
InitNrsc ==
    /\ store = "nrsc"
    /\ dir = NrscDir
    /\ files = Some(Nrsc_files(NrscDir).val)
    /\ index = RscIndex(None, <<>>)
    /\ zlib_buf = <<>>
    /\ contents_buf = <<>>
    /\ current_offset = -1
    /\ current_len = 0
    /\ read_buf = <<>>
    /\ keys = <<>>
    /\ recs = <<>>
    /\ words = <<>>
    /\ image = <<>>
    /\ call = NoCall

NrscCall(op, arg, rec, r) ==
    /\ read_buf' = r.buf
    /\ call' = [op |-> op, arg |-> arg, rec |-> rec, before |-> read_buf, out |-> r.out]
    /\ UNCHANGED <<store, dir, files, index, current_offset, current_len, contents_buf,
                   zlib_buf, keys, recs, words, image>>

\* a call of nrsc.data.get_by_nidx_rec(rec)
NrscGetByRec ==
    /\ store = "nrsc"
    /\ \E rec \in NrscRecs :
          NrscCall("get_by_nidx_rec", rec, Some(rec), get_by_nidx_rec(files[1], read_buf, rec))

\* a call of nrsc.get(id_)
NrscGet ==
    /\ store = "nrsc"
    /\ \E id_ \in NrscIds :
          NrscCall("nrsc.get", id_, NrscIndex_get_by_id(NrscIdx, id_),
                   Nrsc_get(files[1], NrscIdx, read_buf, id_))

\* a call of nrsc.get_by_idx(idx)
NrscGetByIdx ==
    /\ store = "nrsc"
    /\ \E i \in 0..MaxLookup :
          LET r == NrscIndex_get_by_idx(NrscIdx, i)
          IN  NrscCall("nrsc.get_by_idx", i,
                       IF r.exc = "none" THEN Some(r.val[2]) ELSE None,
                       Nrsc_get_by_idx(files[1], NrscIdx, read_buf, i))

NextNrsc == NrscGetByRec \/ NrscGet \/ NrscGetByIdx

SpecNrsc == InitNrsc /\ [][NextNrsc]_vars

\* either resource store
SpecStores == (InitRsc \/ InitNrsc) /\ [][NextRsc \/ NextNrsc]_vars

(***************************************************************************)
(* C2: what a fetch of an Nrsc record returns                              *)
(***************************************************************************)
\* the rec.length bytes stored at rec.file_offset of file rec.fileseq
Stored(rec) == FileRead(files[1][rec.fileseq + 1].file, rec.file_offset, rec.length)

IsNrscFetch ==
    /\ store = "nrsc"
    /\ call.op \in {"get_by_nidx_rec", "nrsc.get", "nrsc.get_by_idx"}
    /\ call.rec # None
    /\ call.rec[1].fileseq < Len(files[1])
    /\ call.rec[1].file_offset + call.rec[1].length <= files[1][call.rec[1].fileseq + 1].len

FetchedBytes == IF call.op = "nrsc.get_by_idx" THEN call.out.val[2] ELSE call.out.val

\* C2: a fetch of an uncompressed record that lies within its file returns
\* exactly the rec.length bytes stored at rec.file_offset of file rec.fileseq,
\* and a fetch of a compressed record the decompression of exactly those
\* bytes, whatever was fetched before.
C2_AsStated ==
    IsNrscFetch =>
       LET rec == call.rec[1]
       IN  /\ rec.format = Uncompressed =>
                 call.out.exc = "none" /\ FetchedBytes = Stored(rec)
           /\ rec.format = Zlib =>
                 /\ call.out.exc = zlib_decompress(Stored(rec)).exc
                 /\ call.out.exc = "none" => FetchedBytes = zlib_decompress(Stored(rec)).val

(***************************************************************************)
(* C5: a lookup by an id that is not in the index                          *)
(***************************************************************************)
\* whether the Rsc index holds the id: a position of the map array when there
\* is no sparse index, the item_id of an entry when there is one
RscKnows(ix, id_) ==
    IF ix.idx = None THEN id_ < Len(ix.map)
    ELSE \E k \in 1..Len(ix.idx[1]) : ix.idx[1][k].item_id = id_

\* whether the Nrsc index holds the id string
NrscKnows(nix, id_) ==
    \E k \in 1..Len(nix.idx) :
        /\ get_id_at(nix, nix.idx[k].id_str_offset).exc = "none"
        /\ get_id_at(nix, nix.idx[k].id_str_offset).val = id_

\* C5: Rsc.get and Nrsc.get of an id that is not in the index end without an
\* exception (with a not-found result), and leave the store's state as it was.
C5_AsStated ==
    /\ (store = "rsc" /\ call.op = "get" /\ ~RscKnows(index, call.arg))
          => call.out.exc = "none" /\ current_offset = call.before
    /\ (store = "nrsc" /\ call.op = "nrsc.get" /\ ~NrscKnows(NrscIdx, call.arg))
          => call.out.exc = "none" /\ read_buf = call.before

(***************************************************************************)
(* RscIndex alone, over every sparse index within the bounds               *)
(***************************************************************************)
MaxIdxLen == 2

MaxItemId == 3

MaxMapIdx == 4

IdxRecords == { IdxRecord(i, m) : i \in 0..MaxItemId, m \in 0..MaxMapIdx }

\* the .idx files whose entries are sorted by strictly increasing item_id
SortedIdx ==
    UNION { { l \in [1..n -> IdxRecords] :
                \A k \in 1..(n - 1) : l[k].item_id < l[k + 1].item_id } : n \in 0..MaxIdxLen }

\* RscIndex.new
InitIndex ==
    /\ store = "index"
    /\ dir = <<>>
    /\ files = None
    /\ index \in {RscIndex(None, RscMap)} \cup {RscIndex(Some(l), RscMap) : l \in SortedIdx}
    /\ zlib_buf = <<>>
    /\ contents_buf = <<>>
    /\ current_offset = -1
    /\ current_len = 0
    /\ read_buf = <<>>
    /\ keys = <<>>
    /\ recs = <<>>
    /\ words = <<>>
    /\ image = <<>>
    /\ call = NoCall

IndexCall(op, arg, out) ==
    /\ call' = [op |-> op, arg |-> arg, out |-> out]
    /\ UNCHANGED <<store, dir, files, index, current_offset, current_len, contents_buf,
                   zlib_buf, read_buf, keys, recs, words, image>>

\* a call of index.get_map_idx_by_id(id_)
GetMapIdxById ==
    /\ store = "index"
    /\ \E id_ \in 0..(MaxItemId + 1) :
          IndexCall("get_map_idx_by_id", id_, Ok(get_map_idx_by_id(index, id_)))

\* a call of index.get_by_id(id_)
IndexGetById ==
    /\ store = "index"
    /\ \E id_ \in 0..(MaxItemId + 1) :
          IndexCall("get_by_id", id_, RscIndex_get_by_id(index, id_))

\* a call of index.get_by_idx(idx)
IndexGetByIdx ==
    /\ store = "index"
    /\ \E i \in 0..MaxMapIdx :
          IndexCall("get_by_idx", i, RscIndex_get_by_idx(index, i))

NextIndex == GetMapIdxById \/ IndexGetById \/ IndexGetByIdx

SpecIndex == InitIndex /\ [][NextIndex]_vars

(***************************************************************************)
(* C6: the sparse index resolves an id to the map_idx stored with it       *)
(***************************************************************************)
\* the map_idx stored in the entry whose item_id is id_, if there is one
StoredMapIdx(ix, id_) ==
    LET ks == {k \in 1..Len(ix.idx[1]) : ix.idx[1][k].item_id = id_}
    IN  IF ks = {} THEN None ELSE Some(ix.idx[1][CHOOSE k \in ks : TRUE].map_idx)

\* C6: over a sparse index sorted by strictly increasing item_id,
\* get_map_idx_by_id(id) is the map_idx stored in the entry whose item_id is
\* id, for every id present whose stored map_idx lies in the map array, and it
\* never is a position outside the map array.
C6_AsStated ==
    (store = "index" /\ call.op = "get_map_idx_by_id" /\ index.idx # None) =>
       LET stored == StoredMapIdx(index, call.arg)
           got == call.out.val
       IN  /\ (stored # None /\ stored[1] < Len(index.map)) => got = stored
           /\ got # None => got[1] < Len(index.map)

(***************************************************************************)
(* Segment enumeration over every directory listing within the bounds      *)
(***************************************************************************)
MaxFiles == 3

MaxSeq == 3

MaxOffset == 7

\* a file of n bytes, each byte the number b
Filled(n, b) == [k \in 1..n |-> b]

\* names that match the format's pattern, with sizes 0, 1 and 2, and two names
\* that do not match (wrong suffix, no number)
RscEntries ==
    { [prefix |-> "contents-", seq |-> Some(n), suffix |-> ".rsc", data |-> Filled(sz, n)] :
        n \in 0..MaxSeq, sz \in 0..2 }
    \cup { [prefix |-> "contents-", seq |-> Some(1), suffix |-> ".map", data |-> <<9>>],
           [prefix |-> "contents-", seq |-> None, suffix |-> ".rsc", data |-> <<9>>] }

NrscEntries ==
    { [prefix |-> "", seq |-> Some(n), suffix |-> ".nrsc", data |-> Filled(sz, n)] :
        n \in 0..MaxSeq, sz \in 0..2 }
    \cup { [prefix |-> "x", seq |-> Some(0), suffix |-> ".nrsc", data |-> <<9>>],
           [prefix |-> "", seq |-> None, suffix |-> ".nrsc", data |-> <<9>>] }

Listings(entries) == UNION { [1..n -> entries] : n \in 0..MaxFiles }

\* three segments of 10, 20 and 30 bytes, listed out of order
ExampleListing(prefix, suffix, base) ==
    << [prefix |-> prefix, seq |-> Some(base + 2), suffix |-> suffix, data |-> Filled(30, 3)],
       [prefix |-> prefix, seq |-> Some(base), suffix |-> suffix, data |-> Filled(10, 1)],
       [prefix |-> prefix, seq |-> Some(base + 1), suffix |-> suffix, data |-> Filled(20, 2)] >>

InitFiles ==
    /\ \/ /\ store = "rscdir"
          /\ dir \in Listings(RscEntries) \cup {ExampleListing("contents-", ".rsc", 1)}
       \/ /\ store = "nrscdir"
          /\ dir \in Listings(NrscEntries) \cup {ExampleListing("", ".nrsc", 0)}
    /\ files = None
    /\ index = RscIndex(None, <<>>)
    /\ zlib_buf = <<>>
    /\ contents_buf = <<>>
    /\ current_offset = -1
    /\ current_len = 0
    /\ read_buf = <<>>
    /\ keys = <<>>
    /\ recs = <<>>
    /\ words = <<>>
    /\ image = <<>>
    /\ call = NoCall

FilesCall(op, arg, out) ==
    /\ call' = [op |-> op, arg |-> arg, out |-> out]
    /\ UNCHANGED <<store, dir, index, current_offset, current_len, contents_buf,
                   zlib_buf, read_buf, keys, recs, words, image>>

\* Rsc.files(path, rsc_name) during Rsc.new
EnumerateRsc ==
    /\ store = "rscdir"
    /\ call.op = "open"
    /\ LET r == Rsc_files(dir, RscName)
       IN  /\ files' = IF r.exc = "none" THEN Some(r.val) ELSE None
           /\ FilesCall("Rsc.files", RscName, r)

\* Nrsc.files(path) during Nrsc.new
EnumerateNrsc ==
    /\ store = "nrscdir"
    /\ call.op = "open"
    /\ LET r == Nrsc_files(dir)
       IN  /\ files' = IF r.exc = "none" THEN Some(r.val) ELSE None
           /\ FilesCall("Nrsc.files", <<>>, r)

\* file_offset(self.files, offset) on the enumerated files
Resolve ==
    /\ store \in {"rscdir", "nrscdir"}
    /\ files # None
    /\ \E o \in 0..MaxOffset \cup {25, 60} :
          /\ FilesCall("file_offset", o, file_offset(files[1], o))
          /\ UNCHANGED files

NextFiles == EnumerateRsc \/ EnumerateNrsc \/ Resolve

SpecFiles == InitFiles /\ [][NextFiles]_vars

(***************************************************************************)
(* C3: file_offset over cumulative segment offsets                         *)
(***************************************************************************)
RECURSIVE TotalSize(_)
TotalSize(fs) == IF fs = <<>> THEN 0 ELSE Head(fs).len + TotalSize(Tail(fs))

\* the files whose range [offset, offset + len) holds the logical offset o
Holding(fs, o) == {i \in 1..Len(fs) : fs[i].offset <= o /\ o < fs[i].offset + fs[i].len}

\* C3: on segment files whose offsets are the cumulative sizes of the
\* lower-numbered files, file_offset(files, o) yields for every o below the
\* total size the one file whose range holds o, with local offset
\* o - offset of that file, and raises IndexError for every o at or beyond the
\* total size.
C3_FileOffset ==
    (store \in {"rscdir", "nrscdir"} /\ call.op = "file_offset") =>
       LET fs == files[1]
           o == call.arg
       IN  /\ o < TotalSize(fs) =>
                 /\ call.out.exc = "none"
                 /\ Holding(fs, o) = {call.out.val.pos}
                 /\ call.out.val.file = fs[call.out.val.pos].file
                 /\ call.out.val.local = o - fs[call.out.val.pos].offset
           /\ o >= TotalSize(fs) => call.out.exc = "IndexError"

\* sizes 10, 20, 30: offset 25 resolves to the second file at local offset 15
C3_Witness ==
    /\ store \in {"rscdir", "nrscdir"}
    /\ call.op = "file_offset"
    /\ call.arg = 25
    /\ Len(files[1]) = 3
    /\ files[1][1].len = 10 /\ files[1][2].len = 20 /\ files[1][3].len = 30
    /\ call.out.exc = "none"
    /\ call.out.val.pos = 2
    /\ call.out.val.local = 15

(***************************************************************************)
(* C4: which listings segment enumeration accepts                          *)
(***************************************************************************)
\* the sequence number extracted from listing entry e, None if the name does
\* not match
Extracted(e) ==
    IF store = "rscdir" THEN Rsc_parse_fname(RscName, e) ELSE Nrsc_parse_fname(e)

Matching == {k \in 1..Len(dir) : Extracted(dir[k]) # None}

Base == IF store = "rscdir" THEN 1 ELSE 0

\* the extracted numbers are exactly Base .. Base + N - 1, each once
Contiguous ==
    \A n \in Base..(Base + Cardinality(Matching) - 1) :
        Cardinality({k \in Matching : Extracted(dir[k])[1] = n}) = 1

\* C4: Rsc.files (base 1) and Nrsc.files (base 0) succeed exactly when the
\* sequence numbers extracted from the matching names are base, base + 1, ...,
\* base + N - 1, each once; on success the files are the matching entries in
\* ascending sequence order and each file's offset is the sum of the lengths
\* of the lower-numbered files.
C4_Enumeration ==
    (store \in {"rscdir", "nrscdir"} /\ call.op \in {"Rsc.files", "Nrsc.files"}) =>
       /\ call.out.exc = "none" <=> Contiguous
       /\ call.out.exc = "none" <=> files # None
       /\ files # None =>
             LET fs == files[1]
             IN  /\ Len(fs) = Cardinality(Matching)
                 /\ \A i \in 1..Len(fs) :
                       /\ fs[i].seqnum = Base + i - 1
                       /\ fs[i].offset = TotalSize(SubSeq(fs, 1, i - 1))
                       /\ \E k \in Matching :
                             /\ Extracted(dir[k])[1] = fs[i].seqnum
                             /\ fs[i].file = dir[k].data
                             /\ fs[i].len = Len(dir[k].data)

\* three segments listed out of order are accepted, sorted and given the
\* offsets 0, 10 and 30
C4_Witness ==
    /\ store = "rscdir"
    /\ call.op = "Rsc.files"
    /\ dir = ExampleListing("contents-", ".rsc", 1)
    /\ files # None
    /\ Len(files[1]) = 3
    /\ files[1][1].offset = 0 /\ files[1][2].offset = 10 /\ files[1][3].offset = 30

(***************************************************************************)
(* The key store under test.  The words region of a .keystore file holds   *)
(* the word_index vector and then, per word, a 4-byte page-list offset, one *)
(* byte, the word in UTF-8 and a 0; the page-lists follow.  Offsets count   *)
(* from the start of the region, and offset_delta takes them into           *)
(* word_data, which starts after the vector.                                *)
(***************************************************************************)
U32LE(n) == <<n % 256, (n \div 256) % 256, (n \div 65536) % 256, (n \div 16777216) % 256>>

U16LE(n) == <<n % 256, (n \div 256) % 256>>

\* n as w bytes, most significant first
RECURSIVE BigEndian(_, _)
BigEndian(n, w) == IF w = 0 THEN <<>> ELSE Append(BigEndian(n \div 256, w - 1), n % 256)

\* a Page Reference [low, high, page, item]: low is the tag's low nibble (1, 2
\* or 4 for a 1-, 2- or 3-byte page-id), high its high nibble (0, 1 or 2 bytes
\* of item-id); any other nibble is one the format does not define, and
\* carries no bytes
PageWidth(low) == IF low = 1 THEN 1 ELSE IF low = 2 THEN 2 ELSE IF low = 4 THEN 3 ELSE 0

ItemWidth(high) == IF high = 1 THEN 1 ELSE IF high = 2 THEN 2 ELSE 0

EncodeRef(r) ==
    <<r.high * 16 + r.low>> \o BigEndian(r.page, PageWidth(r.low))
                            \o BigEndian(r.item, ItemWidth(r.high))

RECURSIVE EncodeRefs(_)
EncodeRefs(rs) == IF rs = <<>> THEN <<>> ELSE EncodeRef(Head(rs)) \o EncodeRefs(Tail(rs))

\* a page-list: a 2-byte count and the references
EncodePageList(rs) == U16LE(Len(rs)) \o EncodeRefs(rs)

WellFormed(r) == r.low \in {1, 2, 4} /\ r.high \in {0, 1, 2}

PageVals(low) ==
    IF low = 1 THEN {7, 200}
    ELSE IF low = 2 THEN {258, 65280}
    ELSE IF low = 4 THEN {66051, 16711680}
    ELSE {0}

ItemVals(high) == IF high = 1 THEN {171} ELSE IF high = 2 THEN {513} ELSE {0}

Refs ==
    UNION { { [low |-> l, high |-> h, page |-> pg, item |-> it] :
                pg \in PageVals(l), it \in ItemVals(h) } : l \in {1, 2, 3, 4}, h \in {0, 1, 2, 3} }

MaxRefs == 2

PageLists == UNION { [1..n -> Refs] : n \in 0..MaxRefs }

\* the words of the store, in byte-lexicographic order: "ab", "abc", "ア"
KeyWords == << <<97, 98>>, <<97, 98, 99>>, <<12450>> >>

WordEntryLen(w) == 4 + 1 + Len(Utf8Encode(w)) + 1

RECURSIVE SumOver(_, _)
SumOver(lens, n) == IF n = 0 THEN 0 ELSE SumOver(lens, n - 1) + lens[n]

\* the Keys object that Keys.__init__ builds from a file whose words region
\* holds KeyWords with the page-lists pls; pages remembers the page-lists that
\* were encoded into the file
KeysOf(pls) ==
    LET n == Len(KeyWords)
        vec == 4 + 4 * n
        elen == [i \in 1..n |-> WordEntryLen(KeyWords[i])]
        plen == [i \in 1..n |-> Len(EncodePageList(pls[i]))]
        woff == [i \in 1..n |-> vec + SumOver(elen, i - 1)]
        poff == [i \in 1..n |-> vec + SumOver(elen, n) + SumOver(plen, i - 1)]
        entry(i) == U32LE(poff[i]) \o <<0>> \o Utf8Encode(KeyWords[i]) \o <<0>>
    IN  [offset_delta |-> 0 - vec,
         word_index |-> woff,
         word_data |-> entry(1) \o entry(2) \o entry(3)
                       \o EncodePageList(pls[1]) \o EncodePageList(pls[2])
                       \o EncodePageList(pls[3]),
         index_prefix |-> woff,
         pages |-> pls]

\* keys a caller may search for: the three words, "あ" (which normalizes to
\* "ア"), and "a", "abd", "b", "ン", which are not stored
SearchKeys ==
    { <<97, 98>>, <<97, 98, 99>>, <<12450>>, <<12354>>, <<97>>, <<97, 98, 100>>, <<98>>,
      <<12531>> }

InitKeys ==
    /\ store = "keys"
    /\ dir = <<>>
    /\ files = None
    /\ index = RscIndex(None, <<>>)
    /\ zlib_buf = <<>>
    /\ contents_buf = <<>>
    /\ current_offset = -1
    /\ current_len = 0
    /\ read_buf = <<>>
    /\ recs = <<>>
    /\ words = <<>>
    /\ image = <<>>
    /\ keys \in { KeysOf(<< pl,
                            << [low |-> 2, high |-> 1, page |-> 258, item |-> 171] >>,
                            << [low |-> 1, high |-> 0, page |-> 7, item |-> 0] >> >>) :
                  pl \in PageLists }
    /\ call = NoCall

KeysCall(op, arg, out) ==
    /\ call' = [op |-> op, arg |-> arg, out |-> out]
    /\ UNCHANGED <<store, dir, files, index, current_offset, current_len, contents_buf,
                   zlib_buf, read_buf, keys, recs, words, image>>

\* keys.get_word_span(offset) for a word of the index
WordSpan ==
    /\ store = "keys"
    /\ \E i \in 1..Len(keys.word_index) :
          KeysCall("get_word_span", i, get_word_span(keys, keys.word_index[i]))

\* list(keys.get_page_iter(pages_offset)) for the page-list of a word
PageIter ==
    /\ store = "keys"
    /\ \E i \in 1..Len(keys.word_index) :
          LET ws == get_word_span(keys, keys.word_index[i])
          IN  KeysCall("get_page_iter", i, get_page_iter(keys, ws.val[2]))

\* keys.search_exact(target_key)
SearchExact ==
    /\ store = "keys"
    /\ \E key \in SearchKeys : KeysCall("search_exact", key, search_exact(keys, key))

NextKeys == WordSpan \/ PageIter \/ SearchExact

SpecKeys == InitKeys /\ [][NextKeys]_vars

(***************************************************************************)
(* C9: decoding a page-list inverts the Page Reference encoding            *)
(***************************************************************************)
\* the (page-id, item-id) pairs a page-list encodes
PairsOf(rs) == [i \in 1..Len(rs) |-> <<rs[i].page, rs[i].item>>]

\* C9: for a 2-byte count c followed by c well-formed references,
\* get_page_iter yields exactly c pairs, in encoding order, each the encoded
\* (page-id, item-id), the item-id 0 when none is encoded.
C9_PageListRoundTrip ==
    (store = "keys" /\ call.op = "get_page_iter"
       /\ \A i \in 1..Len(keys.pages[call.arg]) : WellFormed(keys.pages[call.arg][i])) =>
          /\ call.out.exc = "none"
          /\ Len(call.out.pairs) = Len(keys.pages[call.arg])
          /\ call.out.pairs = PairsOf(keys.pages[call.arg])

\* a 3-byte page-id with a 2-byte item-id, then a 2-byte page-id with none
C9_Witness ==
    /\ store = "keys"
    /\ call.op = "get_page_iter"
    /\ call.arg = 1
    /\ keys.pages[1] = << [low |-> 4, high |-> 2, page |-> 66051, item |-> 513],
                          [low |-> 2, high |-> 0, page |-> 65280, item |-> 0] >>
    /\ call.out.exc = "none"
    /\ call.out.pairs = << <<66051, 513>>, <<65280, 0>> >>

(***************************************************************************)
(* C7: the exact search over the prefix index                              *)
(***************************************************************************)
\* the 0-based positions of the prefix index whose stored word is w
PositionsOf(w) == {i \in 0..(Len(KeyWords) - 1) : KeyWords[i + 1] = w}

\* C7: search_exact(key) returns the position and page-list of an entry whose
\* stored word equals the normalized key in full whenever there is one, and
\* not-found (None) when there is none; it never ends in an error.
C7_AsStated ==
    (store = "keys" /\ call.op = "search_exact") =>
       LET target == to_katakana(call.arg)
       IN  /\ call.out.exc = "none"
           /\ PositionsOf(target) = {} => call.out.val = None
           /\ PositionsOf(target) # {} =>
                 /\ call.out.val # None
                 /\ call.out.val[1][1] \in PositionsOf(target)
                 /\ call.out.val[1][2].pairs = PairsOf(keys.pages[call.out.val[1][1] + 1])

(***************************************************************************)
(* The headline store under test, over every record list within the bounds *)
(***************************************************************************)
MaxRecs == 3

MaxPage == 2

\* the item ids of a page: a page has a headline for itself and for one item
Items == {0, 1}

\* the headline of (page, item): one or two UTF-16 code units
HeadWord(page, item) ==
    IF item = 0 THEN <<65 + page>> ELSE <<12354, 65 + 2 * page + item>>

RECURSIVE Utf16Encode(_)
Utf16Encode(str) ==
    IF str = <<>> THEN <<>>
    ELSE <<Head(str) % 256, Head(str) \div 256>> \o Utf16Encode(Tail(str))

\* the words section: the headlines of (0,0), (0,1), .., (page-1, 1),
\* each ended by a 16-bit 0
RECURSIVE WordsUpTo(_, _)
WordsUpTo(page, item) ==
    IF page = 0 /\ item = 0 THEN <<>>
    ELSE LET pp == IF item = 0 THEN page - 1 ELSE page
             pi == IF item = 0 THEN Cardinality(Items) - 1 ELSE item - 1
         IN  WordsUpTo(pp, pi) \o Utf16Encode(HeadWord(pp, pi)) \o <<0, 0>>

WordsSection == WordsUpTo(MaxPage + 1, 0)

\* the record of (page, item): its word starts where the earlier words end
HeadRec(page, item) == Offset(page, item, 0, Len(WordsUpTo(page, item)))

HeadRecs == { HeadRec(pg, it) : pg \in 0..MaxPage, it \in Items }

\* Headlines.from_path: record lists in any order, sorted or not
InitHeadlines ==
    /\ store = "headlines"
    /\ dir = <<>>
    /\ files = None
    /\ index = RscIndex(None, <<>>)
    /\ zlib_buf = <<>>
    /\ contents_buf = <<>>
    /\ current_offset = -1
    /\ current_len = 0
    /\ read_buf = <<>>
    /\ keys = <<>>
    /\ recs \in UNION { [1..n -> HeadRecs] : n \in 0..MaxRecs }
    /\ words = WordsSection
    /\ image = <<>>
    /\ call = NoCall

\* a call of headlines.get(id)
HeadlinesGet ==
    /\ store = "headlines"
    /\ \E pg \in 0..(MaxPage + 1), it \in Items \cup {Cardinality(Items)} :
          call' = [op |-> "Headlines.get", arg |-> [page |-> pg, item |-> it],
                   out |-> Headlines_get(recs, words, [page |-> pg, item |-> it])]
    /\ UNCHANGED <<store, dir, files, index, current_offset, current_len, contents_buf,
                   zlib_buf, read_buf, keys, recs, words, image>>

\* a call of headlines.get_word(rec) for a record of the store
HeadlinesGetWord ==
    /\ store = "headlines"
    /\ \E i \in 1..Len(recs) :
          call' = [op |-> "get_word", arg |-> i, out |-> get_word(words, recs[i])]
    /\ UNCHANGED <<store, dir, files, index, current_offset, current_len, contents_buf,
                   zlib_buf, read_buf, keys, recs, words, image>>

NextHeadlines == HeadlinesGet \/ HeadlinesGetWord

SpecHeadlines == InitHeadlines /\ [][NextHeadlines]_vars

(***************************************************************************)
(* C8: the binary search of Headlines.get                                  *)
(***************************************************************************)
RecsSorted ==
    \A i \in 1..(Len(recs) - 1) :
        \/ TupleLess(recs[i].page_id, recs[i].item_id, recs[i + 1].page_id, recs[i + 1].item_id)
        \/ (recs[i].page_id = recs[i + 1].page_id /\ recs[i].item_id = recs[i + 1].item_id)

\* the positions of the records whose (page_id, item_id) is the id asked for
MatchesOf(id) == {i \in 1..Len(recs) : recs[i].page_id = id.page /\ recs[i].item_id = id.item}

\* C8: over records sorted by (page_id, item_id), Headlines.get(id) returns
\* the word of a record whose (page_id, item_id) is (id.page, id.item) when
\* there is one and raises InvalidIndex when there is none; over records in
\* any order it ends, never reads outside recs, and what it returns is never
\* the word of a record with another (page_id, item_id).
C8_HeadlinesGet ==
    (store = "headlines" /\ call.op = "Headlines.get") =>
       LET id == call.arg
       IN  /\ call.out.exc \in {"none", "Exception: InvalidIndex"}
           /\ call.out.exc = "none" =>
                 /\ MatchesOf(id) # {}
                 /\ call.out.val = HeadWord(id.page, id.item)
                 /\ \E i \in MatchesOf(id) : call.out = get_word(words, recs[i])
           /\ RecsSorted => (call.out.exc = "none" <=> MatchesOf(id) # {})

\* the last of three sorted records is found, with a two-unit word
C8_Witness ==
    /\ store = "headlines"
    /\ call.op = "Headlines.get"
    /\ Len(recs) = 3
    /\ RecsSorted
    /\ call.arg = [page |-> 2, item |-> 1]
    /\ recs[3].page_id = 2 /\ recs[3].item_id = 1
    /\ recs[1].page_id = 0
    /\ call.out = Ok(<<12354, 70>>)

(***************************************************************************)
(* Key files and headline files to open: well-formed files, and the same   *)
(* files with header fields overwritten                                    *)
(***************************************************************************)
RECURSIVE EncodeWords(_)
EncodeWords(l) == IF l = <<>> THEN <<>> ELSE U32LE(Head(l)) \o EncodeWords(Tail(l))

\* a vector as read_vec reads it: a count and the entries
EncodeVec(l) == U32LE(Len(l)) \o EncodeWords(l)

\* the Keys object the well-formed key file holds
FileKeys ==
    KeysOf(<< << [low |-> 1, high |-> 1, page |-> 7, item |-> 171] >>,
              << [low |-> 2, high |-> 1, page |-> 258, item |-> 171] >>,
              << [low |-> 1, high |-> 0, page |-> 7, item |-> 0] >> >>)

WordsRegion == EncodeVec(FileKeys.word_index) \o FileKeys.word_data

\* the index region: the header and the four vectors, at 20, 36, 52 and 68
IndexRegion(ih) ==
    EncodeWords(<<ih.magic, ih.index_a_offset, ih.index_b_offset, ih.index_c_offset,
                  ih.index_d_offset>>)
    \o EncodeVec(FileKeys.word_index) \o EncodeVec(FileKeys.word_index)
    \o EncodeVec(FileKeys.word_index) \o EncodeVec(FileKeys.word_index)

\* a version 1 header is 16 bytes, any other 32
HeaderBytes(h) ==
    IF h.ver = 65536
    THEN EncodeWords(<<h.ver, h.magic1, h.words_offset, h.idx_offset>>)
    ELSE EncodeWords(<<h.ver, h.magic1, h.words_offset, h.idx_offset, h.next_offset,
                       h.magic5, h.magic6, h.magic7>>)

KeyFile(h, ih) == HeaderBytes(h) \o WordsRegion \o IndexRegion(ih)

\* where the index region of a file of version ver starts, and the file's size
IdxAt(ver) == (IF ver = 65536 THEN 16 ELSE 32) + Len(WordsRegion)

KeyFileSize(ver) == IdxAt(ver) + Len(IndexRegion(IndexHeader(4, 20, 36, 52, 68)))

GoodIndexHeader == IndexHeader(4, 20, 36, 52, 68)

\* file headers: the well-formed ones of both versions and every combination
\* of overwritten fields; idx_offset is where the index region is, or
\* words_offset, or 8
FileHeaders ==
    UNION { { FileHeader(ver, magic1, wo, io, no, m5, m6, m7) :
                magic1 \in {0, 1}, io \in {IdxAt(ver), wo, 8},
                no \in {0, KeyFileSize(131072), IdxAt(131072), 4},
                m5 \in {0, 1}, m6 \in {0, 1}, m7 \in {0, 1} } :
            ver \in {65536, 131072, 196608}, wo \in {16, 32} }

GoodFileHeaders ==
    { FileHeader(65536, 0, 16, IdxAt(65536), 0, 0, 0, 0) }
    \cup { FileHeader(131072, 0, 32, IdxAt(131072), no, 0, 0, 0) :
             no \in {0, KeyFileSize(131072)} }

IndexHeaders ==
    { IndexHeader(magic, a, b, c, d) :
        magic \in {4, 5}, a \in {20, 0, 40}, b \in {36, 0, 20}, c \in {52, 0, 36},
        d \in {68, 0, 52, 1000} }

KeyFiles ==
    { KeyFile(h, GoodIndexHeader) : h \in FileHeaders }
    \cup { KeyFile(h, ih) : h \in GoodFileHeaders, ih \in IndexHeaders }

\* an Offset record as its 24 bytes
EncodeOffset(rec) ==
    U32LE(rec.page_id) \o <<rec.item_id, rec.item_type>> \o U16LE(0) \o U32LE(rec.offset)
    \o U32LE(0) \o U32LE(0) \o U32LE(0)

HeadlineRecs == <<HeadRec(0, 0), HeadRec(0, 1), HeadRec(1, 0)>>

\* a headline file: the 32-byte header, the records at 32, the words after them
HeadlineFile(h) ==
    EncodeWords(<<h.magic1, h.magic2, h.length, h.rec_offset, h.words_offset, h.rec_bytes,
                  h.magic4, h.magic5>>)
    \o EncodeOffset(HeadlineRecs[1]) \o EncodeOffset(HeadlineRecs[2])
    \o EncodeOffset(HeadlineRecs[3]) \o WordsSection

HeadlineFiles ==
    { HeadlineFile([magic1 |-> m1, magic2 |-> m2, length |-> ln, rec_offset |-> ro,
                    words_offset |-> wo, rec_bytes |-> rb, magic4 |-> m4, magic5 |-> m5]) :
        m1 \in {0, 1}, m2 \in {2, 0}, ln \in {3, 0}, ro \in {32, 56}, wo \in {104, 80},
        rb \in {24, 16}, m4 \in {0, 1}, m5 \in {0, 1} }

InitOpen ==
    /\ \/ store = "keyfile" /\ image \in KeyFiles
       \/ store = "headlinefile" /\ image \in HeadlineFiles
    /\ dir = <<>>
    /\ files = None
    /\ index = RscIndex(None, <<>>)
    /\ zlib_buf = <<>>
    /\ contents_buf = <<>>
    /\ current_offset = -1
    /\ current_len = 0
    /\ read_buf = <<>>
    /\ keys = <<>>
    /\ recs = <<>>
    /\ words = <<>>
    /\ call = NoCall

\* Keys(path)
OpenKeys ==
    /\ store = "keyfile"
    /\ LET out == Keys_init(image)
       IN  /\ call' = [op |-> "Keys", arg |-> <<>>, out |-> out]
           /\ keys' = IF out.exc = "none" THEN out.val ELSE keys
    /\ UNCHANGED <<store, dir, files, index, current_offset, current_len, contents_buf,
                   zlib_buf, read_buf, recs, words, image>>

\* Headlines.from_path(path)
OpenHeadlines ==
    /\ store = "headlinefile"
    /\ LET out == Headlines_from_path(image)
       IN  /\ call' = [op |-> "Headlines.from_path", arg |-> <<>>, out |-> out]
           /\ recs' = IF out.exc = "none" THEN out.val.recs ELSE recs
           /\ words' = IF out.exc = "none" THEN out.val.words ELSE words
    /\ UNCHANGED <<store, dir, files, index, current_offset, current_len, contents_buf,
                   zlib_buf, read_buf, keys, image>>

NextOpen == OpenKeys \/ OpenHeadlines

SpecOpen == InitOpen /\ [][NextOpen]_vars

(***************************************************************************)
(* C10: header validation                                                  *)
(***************************************************************************)
\* the k-th 32-bit field of the file, counting from 0 at byte pos
FieldAt(pos, k) == UnpackFromU32(image, pos + 4 * k).val

\* the key file header as the format defines validity: version 1 has four
\* fields, version 2 eight
KeyHeaderValid ==
    \/ /\ FieldAt(0, 0) = 65536 /\ FieldAt(0, 1) = 0 /\ FieldAt(0, 2) = 16
       /\ FieldAt(0, 2) < FieldAt(0, 3)
    \/ /\ FieldAt(0, 0) = 131072 /\ FieldAt(0, 1) = 0 /\ FieldAt(0, 2) = 32
       /\ FieldAt(0, 5) = 0 /\ FieldAt(0, 6) = 0 /\ FieldAt(0, 7) = 0
       /\ FieldAt(0, 2) < FieldAt(0, 3)
       /\ (FieldAt(0, 4) = 0 \/ FieldAt(0, 3) < FieldAt(0, 4))

\* the end of the index region: next_offset of a version 2 header unless 0
IdxEnd ==
    IF FieldAt(0, 0) = 131072 /\ FieldAt(0, 4) # 0 THEN FieldAt(0, 4) ELSE Len(image)

KeyIndexHeaderValid ==
    LET at == FieldAt(0, 3)
    IN  /\ FieldAt(at, 0) = 4
        /\ check(FieldAt(at, 1), FieldAt(at, 2))
        /\ check(FieldAt(at, 2), FieldAt(at, 3))
        /\ check(FieldAt(at, 3), FieldAt(at, 4))
        /\ check(FieldAt(at, 4), IdxEnd)

HeadlineHeaderValid ==
    /\ FieldAt(0, 0) = 0 /\ FieldAt(0, 1) = 2 /\ FieldAt(0, 5) = 24
    /\ FieldAt(0, 6) = 0 /\ FieldAt(0, 7) = 0

InvalidHeaderErrors ==
    {"Exception: Key header is invalid.", "Exception: Key index header is invalid.",
     "Exception: KeyFile header is invalid."}

\* C10: a key store or headline store is constructed only if every magic and
\* version field of its header has the format's value and every offset pair
\* satisfies the ordering predicate; a file whose header is valid is opened,
\* and a file with an invalid header fails with an invalid-header error.
C10_AsStated ==
    /\ (store = "keyfile" /\ call.op = "Keys") =>
          /\ call.out.exc = "none" => (KeyHeaderValid /\ KeyIndexHeaderValid)
          /\ ~KeyHeaderValid => call.out.exc = "Exception: Key header is invalid."
          /\ (KeyHeaderValid /\ ~KeyIndexHeaderValid) =>
                call.out.exc = "Exception: Key index header is invalid."
          /\ (KeyHeaderValid /\ KeyIndexHeaderValid) => call.out.exc \notin InvalidHeaderErrors
    /\ (store = "headlinefile" /\ call.op = "Headlines.from_path") =>
          /\ call.out.exc = "none" => HeadlineHeaderValid
          /\ ~HeadlineHeaderValid => call.out.exc = "Exception: KeyFile header is invalid."
          /\ HeadlineHeaderValid => call.out.exc \notin InvalidHeaderErrors

(***************************************************************************)
(* Record-array files to load: complete files, every prefix of them, and   *)
(* files with bytes after the array                                        *)
(***************************************************************************)
MaxLoad == 2

\* the i-th record of an .idx or .map file, as its two fields
LoadPair(i) == <<i, 3 * i + 1>>

RECURSIVE EncodePairs(_)
EncodePairs(n) ==
    IF n = 0 THEN <<>>
    ELSE EncodePairs(n - 1) \o U32LE(LoadPair(n)[1]) \o U32LE(LoadPair(n)[2])

\* an .idx file of n records: the count, four more header bytes, the records
IdxFile(n) == U32LE(n) \o U32LE(0) \o EncodePairs(n)

\* a .map file of n records: four header bytes, the count, the records
MapFile(n) == U32LE(0) \o U32LE(n) \o EncodePairs(n)

\* the i-th record of an index.nidx
LoadNidxRecord(i) == NrscIdxRecord(i % 2, i, 8 + 2 * i, 4 * i, i + 1)

RECURSIVE EncodeNidxRecords(_)
EncodeNidxRecords(n) ==
    IF n = 0 THEN <<>>
    ELSE LET r == LoadNidxRecord(n)
         IN  EncodeNidxRecords(n - 1) \o U16LE(r.format) \o U16LE(r.fileseq)
             \o U32LE(r.id_str_offset) \o U32LE(r.file_offset) \o U32LE(r.length)

\* the id strings after the records: "a", an undecodable byte, "b"
LoadIds == <<97, 0, 255, 0, 98, 0>>

\* an index.nidx of n records
NidxFile(n) == U32LE(0) \o U32LE(n) \o EncodeNidxRecords(n) \o LoadIds

\* a vector of n entries as read_vec reads it at position 0
VecFile(n) == EncodeVec([i \in 1..n |-> 5 * i])

\* the well-formed version 2 key file
LoadKeyFile ==
    KeyFile(FileHeader(131072, 0, 32, IdxAt(131072), 0, 0, 0, 0), IndexHeader(4, 20, 36, 52, 68))

\* every prefix of a file, and the file followed by one more byte
Cuts(full) == { Slice(full, 0, k) : k \in 0..Len(full) } \cup { full \o <<7>> }

InitLoad ==
    /\ \/ store = "idx" /\ image \in UNION { Cuts(IdxFile(n)) : n \in 0..MaxLoad }
       \/ store = "noidx" /\ image = <<>>
       \/ store = "map" /\ image \in UNION { Cuts(MapFile(n)) : n \in 0..MaxLoad }
       \/ store = "nidx" /\ image \in UNION { Cuts(NidxFile(n)) : n \in 0..MaxLoad }
       \/ store = "vec" /\ image \in UNION { Cuts(VecFile(n)) : n \in 0..MaxLoad }
       \/ store = "keys file" /\ image \in Cuts(LoadKeyFile)
    /\ dir = <<>>
    /\ files = None
    /\ index = RscIndex(None, <<>>)
    /\ zlib_buf = <<>>
    /\ contents_buf = <<>>
    /\ current_offset = -1
    /\ current_len = 0
    /\ read_buf = <<>>
    /\ keys = <<>>
    /\ recs = <<>>
    /\ words = <<>>
    /\ call = NoCall

LoadCall(op, out) ==
    /\ call' = [op |-> op, arg |-> <<>>, out |-> out]
    /\ UNCHANGED <<store, dir, files, index, current_offset, current_len, contents_buf,
                   zlib_buf, read_buf, recs, words, image>>

\* RscIndex.load_idx(path)
LoadIdx ==
    /\ store \in {"idx", "noidx"}
    /\ LoadCall("load_idx", load_idx(store = "idx", image))
    /\ UNCHANGED keys

\* RscIndex.load_map(path)
LoadMap ==
    /\ store = "map"
    /\ LoadCall("load_map", load_map(image))
    /\ UNCHANGED keys

\* NrscIndex.new(path)
LoadNidx ==
    /\ store = "nidx"
    /\ LoadCall("NrscIndex.new", NrscIndex_new(image))
    /\ UNCHANGED keys

\* read_vec(f, 0)
ReadVec ==
    /\ store = "vec"
    /\ LoadCall("read_vec", read_vec(image, 0).out)
    /\ UNCHANGED keys

\* Keys(path) on a key file that may be cut short
LoadKeys ==
    /\ store = "keys file"
    /\ LET out == Keys_init(image)
       IN  /\ LoadCall("Keys", out)
           /\ keys' = IF out.exc = "none" THEN out.val ELSE keys

NextLoad == LoadIdx \/ LoadMap \/ LoadNidx \/ ReadVec \/ LoadKeys

SpecLoad == InitLoad /\ [][NextLoad]_vars

(***************************************************************************)
(* C11: truncated record arrays                                            *)
(***************************************************************************)
\* the count the file declares at byte pos: None when the file ends before it
DeclaredAt(pos) ==
    IF pos + 4 > Len(image) THEN None ELSE Some(UnpackFromU32(image, pos).val)

\* the file has fewer bytes than count records of width bytes from byte start
Truncated(count, width, start) ==
    count = None \/ count[1] * width > Max(0, Len(image) - start)

\* what a loader must do on a file declaring count records of width bytes
\* from byte start: raise when the bytes are not all there, else return
\* exactly the declared number of records
LoadsOrFails(out, list, count, width, start) ==
    IF Truncated(count, width, start) THEN out.exc = "struct.error"
    ELSE out.exc = "none" /\ Len(list) = count[1]

\* C11: load_idx, load_map, NrscIndex.new and read_vec fail with an error
\* when the declared count exceeds the bytes available and return exactly
\* count records otherwise, and no Keys store is constructed with an index
\* that is missing.
C11_AsStated ==
    /\ (store = "idx" /\ call.op = "load_idx") =>
          LoadsOrFails(call.out, ListOf(call.out.val), DeclaredAt(0), 8, 8)
    /\ (store = "map" /\ call.op = "load_map") =>
          LoadsOrFails(call.out, call.out.val, DeclaredAt(4), 8, 8)
    /\ (store = "nidx" /\ call.op = "NrscIndex.new") =>
          LoadsOrFails(call.out, call.out.val.idx, DeclaredAt(4), NidxRecordBytes,
                       NidxHeaderBytes)
    /\ (store = "vec" /\ call.op = "read_vec") =>
          LoadsOrFails(call.out, ListOf(call.out.val), DeclaredAt(0), 4, 4)
    /\ (store = "keys file" /\ call.op = "Keys" /\ call.out.exc = "none") =>
          call.out.val.missing = {}

(***************************************************************************)
(* C12: sub-records that run past the end of their block                   *)
(***************************************************************************)
\* the 4-byte length prefix at inner offset i of the cached block
PrefixAt(i) == UnpackU32(Slice(contents_buf, i, i + 4)).val

\* C12: a get_by_map(rec) whose block is loaded raises IndexError whenever
\* ioffset + 4 + length exceeds the size of the decompressed block, length
\* being the prefix at ioffset, and what it returns is never shorter than
\* length: it is the length bytes after the prefix.
C12_AsStated ==
    (store = "rsc" /\ call.op = "get_by_map" /\ current_offset = call.arg[1]) =>
       LET i == call.arg[2]
       IN  IF i + 4 > Len(contents_buf) THEN call.out.exc = "IndexError"
           ELSE IF i + 4 + PrefixAt(i) > Len(contents_buf) THEN call.out.exc = "IndexError"
           ELSE /\ call.out = Ok(SubSeq(contents_buf, i + 5, i + 4 + PrefixAt(i)))
                /\ Len(call.out.val) = PrefixAt(i)

(***************************************************************************)
(* C13: the cached block is always the block at current_offset             *)
(***************************************************************************)
\* the outcome of the last call on a freshly opened store
FreshOut ==
    CASE call.op = "get_by_map" ->
            get_by_map(files[1], RscInitCache, MapRecord(call.arg[1], call.arg[2])).out
      [] call.op = "get" -> Rsc_get(files[1], index, RscInitCache, call.arg).out
      [] OTHER -> Rsc_get_by_idx(files[1], index, RscInitCache, call.arg).out

\* C13: in every state of an Rsc store, after any sequence of get,
\* get_by_idx and get_by_map calls that succeeded or failed, either
\* current_offset = -1 and the buffer is as constructed, or the block at
\* current_offset can be loaded and contents_buf is its decompression; in
\* both cases current_len = len(contents_buf), and every lookup has the
\* outcome the same lookup has on a freshly opened store.
C13_CacheInvariant ==
    store = "rsc" =>
       /\ current_len = Len(contents_buf)
       /\ \/ current_offset = -1 /\ contents_buf = <<>>
          \/ /\ current_offset # -1
             /\ Loadable(current_offset)
             /\ contents_buf = BlockAt(current_offset)
       /\ IsFetch => call.out = FreshOut

\* a lookup is answered from the cache right after a lookup that failed to
\* load its block
C13_Witness ==
    /\ IsFetch
    /\ call.prev # None
    /\ call.prev[1].loads = 1
    /\ call.prev[1].exc = "zlib.error"
    /\ call.loads = 0
    /\ call.zoffset = Some(0)
    /\ current_offset = 0
    /\ call.out = Ok(<<7, 7>>)

(***************************************************************************)
(* C14: page-lists with a tag the format does not define                   *)
(***************************************************************************)
\* C14: get_page_iter on a page-list of declared count c that holds a
\* reference with an unknown low nibble or an unknown high nibble, at any
\* position, does not end in an error and yields exactly c pairs.
C14_AsStated ==
    (store = "keys" /\ call.op = "get_page_iter"
       /\ \E i \in 1..Len(keys.pages[call.arg]) : ~WellFormed(keys.pages[call.arg][i])) =>
          /\ call.out.exc = "none"
          /\ Len(call.out.pairs) = Len(keys.pages[call.arg])

(***************************************************************************)
(* C15: lookup by position and lookup by id                                *)
(***************************************************************************)
\* C15: for an index with no sparse index, an empty one, or one sorted by
\* unique item_id, whenever get_by_idx(i) returns (id, rec), get_by_id(id)
\* returns the same map record rec.
C15_AsStated ==
    (store = "index" /\ call.op = "get_by_idx" /\ call.out.exc = "none"
       /\ call.out.val # None) =>
          RscIndex_get_by_id(index, call.out.val[1][1]) = Ok(call.out.val[1][2])

====
